---- MODULE Spec2Model ----
(***************************************************************************)
(* A model of the canparse/fastcan crate: the DBC ingest/merge engine of   *)
(* dbc::library (DbcLibrary, DbcFrame, DbcSignal) with its whole-file      *)
(* loader, the bit-level signal codec of mapper (decode_message,           *)
(* encode_signal, encode_message), and the library and signal record of    *)
(* the parser module (parser::DbcLibrary, FrameDefinition,                 *)
(* SignalDefinition).                                                      *)
(*                                                                         *)
(* Representation choices                                                  *)
(*   Option<T>      a sequence: << >> is None, <<x>> is Some(x)            *)
(*   HashMap<K,V>   a function whose domain is the set of keys             *)
(*   Result<T,E>    a record [ok |-> TRUE, val |-> t] or [ok |-> FALSE]    *)
(*   panic          the outcome "Panic"; the process has aborted           *)
(***************************************************************************)
EXTENDS Integers, Sequences, FiniteSets, TLC

VARIABLES
    frames,     \* DbcLibrary.frames
    last_id,    \* DbcLibrary.last_id
    ret,        \* outcome of the latest add_entry call
    call,       \* the entry handed to the latest add_entry call
    steps,      \* number of add_entry calls made so far
    touched,    \* history: ID of the frame the latest successful call was routed to
    profile,    \* codec: the build, "debug" (overflow checks) or "release" (wrapping)
    op          \* codec: the latest codec call, its inputs and its outcome

libvars == <<frames, last_id, ret, call, steps, touched>>
codecvars == <<profile, op>>
vars == <<frames, last_id, ret, call, steps, touched, profile, op>>

(***************************************************************************)
(* Bounds of the model.                                                    *)
(***************************************************************************)
MaxSteps == 3
MaxLines == 3

None == << >>
Some(x) == <<x>>
EmptyMap == << >>
Insert(map, k, v) == [x \in (DOMAIN map) \cup {k} |-> IF x = k THEN v ELSE map[x]]

Ok(v) == [ok |-> TRUE, val |-> v]
Err == [ok |-> FALSE]

(***************************************************************************)
(* The inputs: the entries an add_entry call may receive.                  *)
(***************************************************************************)
IDs == {0, 1}
FrameNames == {"F1", "F2"}
SignalNames == {"s1", "s2"}
Keys == {"k1", "k2"}
Values == {"v1", "v2"}
Texts == {"d1", "d2"}
\* the (key, value) pairs of the attribute entries: two values for one key,
\* and a second key
AttrPairs == {a \in Keys \X Values : a # <<"k2", "v1">>}
\* the text of the signal descriptions (a pre-built signal has "d1")
SignalTexts == {"d2"}

\* dbc::DbcSignalDefinition (the fields that the library and the codec read)
SignalDef(name, start_bit, bit_len, little_endian, scale, offset) ==
    [name |-> name, start_bit |-> start_bit, bit_len |-> bit_len,
     little_endian |-> little_endian, signed |-> FALSE,
     scale |-> scale, offset |-> offset]

\* the same layout with the signed flag set as given
WithSigned(d, signed) == [d EXCEPT !.signed = signed]

LibraryDefs ==
    {SignalDef(n, l[1], l[2], l[3], 0, 0) :
        n \in SignalNames, l \in {<<24, 16, TRUE>>, <<0, 8, FALSE>>}}

MessageDefinitions ==
    {[kind |-> "MessageDefinition", id |-> i, name |-> n,
      message_len |-> IF n = "F1" THEN 8 ELSE 6,
      sending_node |-> IF n = "F1" THEN "N1" ELSE "N2"] :
        i \in IDs, n \in FrameNames}
MessageDescriptions ==
    {[kind |-> "MessageDescription", id |-> i, description |-> d] :
        i \in IDs, d \in Texts}
MessageAttributes ==
    {[kind |-> "MessageAttribute", id |-> i, name |-> a[1], value |-> a[2]] :
        i \in IDs, a \in AttrPairs}
SignalDefinitions ==
    {[kind |-> "SignalDefinition", def |-> d] : d \in LibraryDefs}
SignalDescriptions ==
    {[kind |-> "SignalDescription", id |-> i, signal_name |-> n, description |-> d] :
        i \in IDs, n \in SignalNames, d \in SignalTexts}
SignalAttributes ==
    {[kind |-> "SignalAttribute", id |-> i, signal_name |-> n, name |-> a[1],
      value |-> a[2]] :
        i \in IDs, n \in SignalNames, a \in AttrPairs}
OtherEntries ==
    {[kind |-> k] : k \in {"Version", "BusConfiguration", "Unknown"}}

Entries ==
    MessageDefinitions \cup MessageDescriptions \cup MessageAttributes \cup
    SignalDefinitions \cup SignalDescriptions \cup SignalAttributes \cup OtherEntries

(***************************************************************************)
(* DbcSignal                                                               *)
(***************************************************************************)
DbcSignalNew(definition, description, attributes) ==
    [definition |-> definition, description |-> description, attributes |-> attributes]

DbcSignalFromEntry(entry) ==
    CASE entry.kind = "SignalDefinition" ->
            Ok(DbcSignalNew(Some(entry.def), None, EmptyMap))
      [] entry.kind = "SignalDescription" ->
            Ok(DbcSignalNew(None, Some(entry.description), EmptyMap))
      [] entry.kind = "SignalAttribute" ->
            Ok(DbcSignalNew(None, None, Insert(EmptyMap, entry.name, entry.value)))
      [] OTHER -> Err

DbcSignalMergeEntry_ReplacesAttributes(self, entry) ==
    CASE entry.kind = "SignalDefinition" ->
            Ok([self EXCEPT !.definition = Some(entry.def)])
      [] entry.kind = "SignalDescription" ->
            Ok([self EXCEPT !.description = Some(entry.description)])
      [] entry.kind = "SignalAttribute" ->
            Ok([self EXCEPT !.attributes = Insert(EmptyMap, entry.name, entry.value)])
      [] OTHER -> Err

DbcSignalMergeEntry_DefinitionResets(self, entry) ==
    CASE entry.kind = "SignalDefinition" ->
            Ok(DbcSignalNew(Some(entry.def), None, EmptyMap))
      [] entry.kind = "SignalDescription" ->
            Ok([self EXCEPT !.description = Some(entry.description)])
      [] entry.kind = "SignalAttribute" ->
            Ok([self EXCEPT !.attributes = Insert(@, entry.name, entry.value)])
      [] OTHER -> Err

DbcSignalMergeEntry(self, entry) ==
    CASE entry.kind = "SignalDefinition" ->
            Ok([self EXCEPT !.definition = Some(entry.def)])
      [] entry.kind = "SignalDescription" ->
            Ok([self EXCEPT !.description = Some(entry.description)])
      [] entry.kind = "SignalAttribute" ->
            Ok([self EXCEPT !.attributes = Insert(@, entry.name, entry.value)])
      [] OTHER -> Err

(***************************************************************************)
(* DbcFrame                                                                *)
(***************************************************************************)
DbcFrameNew(name, id, message_len, sending_node, attributes, description, signals) ==
    [name |-> name, id |-> id, message_len |-> message_len,
     sending_node |-> sending_node, attributes |-> attributes,
     description |-> description, signals |-> signals]

\* #[derive(Default)] for DbcFrame
DbcFrameDefault == DbcFrameNew("", 0, 0, "", EmptyMap, None, EmptyMap)

DbcFrameFromEntry(entry) ==
    CASE entry.kind = "MessageDefinition" ->
            Ok([DbcFrameDefault EXCEPT !.name = entry.name,
                                       !.message_len = entry.message_len,
                                       !.sending_node = entry.sending_node])
      [] entry.kind = "MessageDescription" ->
            Ok([DbcFrameDefault EXCEPT !.description = Some(entry.description)])
      [] entry.kind = "MessageAttribute" ->
            Ok([DbcFrameDefault EXCEPT
                    !.attributes = Insert(EmptyMap, entry.name, entry.value)])
      [] OTHER -> Err

\* the name under which a signal entry is filed in DbcFrame.signals
SignalKey(entry) ==
    IF entry.kind = "SignalDefinition" THEN entry.def.name ELSE entry.signal_name

DbcFrameMergeEntry_ResetsDescription(self, entry) ==
    CASE entry.kind = "MessageDefinition" ->
            Ok([self EXCEPT !.name = entry.name,
                            !.message_len = entry.message_len,
                            !.sending_node = entry.sending_node,
                            !.description = None])
      [] entry.kind = "MessageDescription" ->
            Ok([self EXCEPT !.description = Some(entry.description)])
      [] entry.kind = "MessageAttribute" ->
            Ok([self EXCEPT !.attributes = Insert(@, entry.name, entry.value)])
      [] entry.kind \in {"SignalDefinition", "SignalDescription", "SignalAttribute"} ->
            LET name == SignalKey(entry)
                r == IF name \in DOMAIN self.signals
                        THEN DbcSignalMergeEntry(self.signals[name], entry)
                        ELSE DbcSignalFromEntry(entry)
            IN  IF r.ok
                   THEN Ok([self EXCEPT !.signals = Insert(@, name, r.val)])
                   ELSE Err
      [] OTHER -> Err

DbcFrameMergeEntry_SingleSignal(self, entry) ==
    CASE entry.kind = "MessageDefinition" ->
            Ok([self EXCEPT !.name = entry.name,
                            !.message_len = entry.message_len,
                            !.sending_node = entry.sending_node])
      [] entry.kind = "MessageDescription" ->
            Ok([self EXCEPT !.description = Some(entry.description)])
      [] entry.kind = "MessageAttribute" ->
            Ok([self EXCEPT !.attributes = Insert(@, entry.name, entry.value)])
      [] entry.kind \in {"SignalDefinition", "SignalDescription", "SignalAttribute"} ->
            LET name == SignalKey(entry)
                r == IF name \in DOMAIN self.signals
                        THEN DbcSignalMergeEntry(self.signals[name], entry)
                        ELSE DbcSignalFromEntry(entry)
            IN  IF r.ok
                   THEN Ok([self EXCEPT !.signals = Insert(EmptyMap, name, r.val)])
                   ELSE Err
      [] OTHER -> Err

DbcFrameMergeEntry_ReplacesAttributes(self, entry) ==
    CASE entry.kind = "MessageDefinition" ->
            Ok([self EXCEPT !.name = entry.name,
                            !.message_len = entry.message_len,
                            !.sending_node = entry.sending_node])
      [] entry.kind = "MessageDescription" ->
            Ok([self EXCEPT !.description = Some(entry.description)])
      [] entry.kind = "MessageAttribute" ->
            Ok([self EXCEPT !.attributes = Insert(EmptyMap, entry.name, entry.value)])
      [] entry.kind \in {"SignalDefinition", "SignalDescription", "SignalAttribute"} ->
            LET name == SignalKey(entry)
                r == IF name \in DOMAIN self.signals
                        THEN DbcSignalMergeEntry(self.signals[name], entry)
                        ELSE DbcSignalFromEntry(entry)
            IN  IF r.ok
                   THEN Ok([self EXCEPT !.signals = Insert(@, name, r.val)])
                   ELSE Err
      [] OTHER -> Err

DbcFrameMergeEntry(self, entry) ==
    CASE entry.kind = "MessageDefinition" ->
            Ok([self EXCEPT !.name = entry.name,
                            !.message_len = entry.message_len,
                            !.sending_node = entry.sending_node])
      [] entry.kind = "MessageDescription" ->
            Ok([self EXCEPT !.description = Some(entry.description)])
      [] entry.kind = "MessageAttribute" ->
            Ok([self EXCEPT !.attributes = Insert(@, entry.name, entry.value)])
      [] entry.kind \in {"SignalDefinition", "SignalDescription", "SignalAttribute"} ->
            LET name == SignalKey(entry)
                r == IF name \in DOMAIN self.signals
                        THEN DbcSignalMergeEntry(self.signals[name], entry)
                        ELSE DbcSignalFromEntry(entry)
            IN  IF r.ok
                   THEN Ok([self EXCEPT !.signals = Insert(@, name, r.val)])
                   ELSE Err
      [] OTHER -> Err

(***************************************************************************)
(* Numbers of the codec.                                                   *)
(*                                                                         *)
(* A u64 is a function from the bit positions 0..63 to {0, 1}; a byte      *)
(* buffer is a sequence of values in 0..255.  A floating point value is a  *)
(* dyadic rational [m |-> mantissa, e |-> exponent] standing for m * 2^e,  *)
(* kept canonical (m odd, or m = 0 and e = 0) so that equal values are     *)
(* equal records.  An f32 holds 24 significant bits and every f32          *)
(* operation rounds its exact result to nearest, ties to even.  An f64     *)
(* holds 53 significant bits; one whose mantissa has more than 30 bits is  *)
(* kept in two limbs, [hi, lo, e] standing for (hi * 2^26 + lo) * 2^e.     *)
(* The subtraction and the division of encode_signal are exact on the      *)
(* values the model feeds them (scales that are powers of two, offsets     *)
(* that are multiples of the last place of the value): 53 bits hold every  *)
(* result.  Its logarithm is not exact, and is rounded as f64::log2 does.  *)
(***************************************************************************)
BitPositions == 0 .. 63
F32Digits == 24
F64Digits == 53
LimbBits == 26

RECURSIVE Canon(_, _)
Canon(m, e) ==
    IF m = 0 THEN [m |-> 0, e |-> 0]
    ELSE IF m % 2 = 0 THEN Canon(m \div 2, e + 1)
    ELSE [m |-> m, e |-> e]

Dy(m, e) == Canon(m, e)
Zero == Dy(0, 0)

Abs(n) == IF n < 0 THEN -n ELSE n

\* number of binary digits of a natural number
RECURSIVE BitLength(_)
BitLength(n) == IF n = 0 THEN 0 ELSE 1 + BitLength(n \div 2)

\* m * 2^e rounded to the 24 significant bits of an f32, ties to even
RoundF32(m, e) ==
    LET a == Abs(m)
        len == BitLength(a)
    IN  IF len <= F32Digits THEN Canon(m, e)
        ELSE LET shift == len - F32Digits
                 q == a \div (2 ^ shift)
                 r == a % (2 ^ shift)
                 half == 2 ^ (shift - 1)
                 up == r > half \/ (r = half /\ q % 2 = 1)
                 qq == IF up THEN q + 1 ELSE q
             IN  Canon(IF m < 0 THEN -qq ELSE qq, e + shift)

\* index of the highest set bit of a u64, -1 for zero
RECURSIVE HighBit(_, _)
HighBit(w, i) == IF i < 0 THEN -1 ELSE IF w[i] = 1 THEN i ELSE HighBit(w, i - 1)

\* the natural number held by bits lo..hi of a u64 (hi - lo < 31)
RECURSIVE BitsValue(_, _, _)
BitsValue(w, lo, hi) ==
    IF hi < lo THEN 0 ELSE 2 * BitsValue(w, lo + 1, hi) + w[lo]

\* `x as f32` for a u64 x: the top 26 bits and a sticky bit decide the rounding
U64AsF32(w) ==
    LET h == HighBit(w, 63) IN
    IF h < 30 THEN RoundF32(BitsValue(w, 0, h), 0)
    ELSE LET lo == h - 25
             sticky == IF \E i \in 0 .. (lo - 1) : w[i] = 1 THEN 1 ELSE 0
         IN  RoundF32(2 * BitsValue(w, lo, h) + sticky, lo - 1)

\* f32 multiplication
MulF32(a, b) == RoundF32(a.m * b.m, a.e + b.e)

\* f32 addition.  When the exact sum does not fit the integers of the checker
\* the smaller operand lies below a quarter of the last place of the larger
\* one (offsets have mantissas below 16), and the sum rounds to the larger.
AddF32(a, b) ==
    LET lo == IF a.e < b.e THEN a.e ELSE b.e
        fits(x) == x.m = 0 \/ BitLength(Abs(x.m)) + (x.e - lo) <= 29
    IN  IF fits(a) /\ fits(b)
           THEN RoundF32(a.m * 2 ^ (a.e - lo) + b.m * 2 ^ (b.e - lo), lo)
           ELSE IF fits(b) THEN a ELSE b

\* an f64 in two limbs: a positive value whose mantissa has 31 to 53 bits
IsWide(x) == "hi" \in DOMAIN x

\* the canonical form of (hi * 2^26 + lo) * 2^e: the mantissa odd, and one
\* limb when its mantissa is below 2^30
RECURSIVE Wide(_, _, _)
Wide(hi, lo, e) ==
    IF hi < 16 THEN Canon(hi * 2 ^ LimbBits + lo, e)
    ELSE IF lo % 2 = 0
            THEN Wide(hi \div 2, (lo \div 2) + (hi % 2) * 2 ^ (LimbBits - 1), e + 1)
    ELSE [hi |-> hi, lo |-> lo, e |-> e]

IsPositive(x) == IsWide(x) \/ x.m > 0
\* number of binary digits of the mantissa
MantissaBits(x) == IF IsWide(x) THEN BitLength(x.hi) + LimbBits ELSE BitLength(Abs(x.m))
\* bit j of the mantissa of a positive value
MantissaBit(x, j) ==
    IF IsWide(x)
       THEN IF j < LimbBits THEN (x.lo \div (2 ^ j)) % 2
            ELSE IF j >= F64Digits THEN 0
            ELSE (x.hi \div (2 ^ (j - LimbBits))) % 2
       ELSE IF j > 30 THEN 0 ELSE (x.m \div (2 ^ j)) % 2
\* floor(log2(x)) of a positive value
Exponent(x) == x.e + MantissaBits(x) - 1

\* the two limbs of the natural number m * 2^s
LimbsOf(m, s) ==
    IF s >= LimbBits THEN <<m * 2 ^ (s - LimbBits), 0>>
    ELSE <<m \div (2 ^ (LimbBits - s)), (m % (2 ^ (LimbBits - s))) * 2 ^ s>>

\* a - b for a in two limbs and b a multiple of the last place of a with
\* |b| < a: the difference is exact
SubWide(a, b) ==
    LET c == LimbsOf(Abs(b.m), b.e - a.e)
        lo == IF b.m > 0 THEN a.lo - c[2] ELSE a.lo + c[2]
        hi == IF b.m > 0 THEN a.hi - c[1] ELSE a.hi + c[1]
    IN  IF lo < 0 THEN Wide(hi - 1, lo + 2 ^ LimbBits, a.e)
        ELSE Wide(hi + (lo \div (2 ^ LimbBits)), lo % (2 ^ LimbBits), a.e)

\* exact subtraction and division by a power of two (the f64 steps of
\* encode_signal).  A value in two limbs whose last place lies above the one
\* of b is first written with the last place of b.
SubF64(a, b) ==
    IF ~IsWide(a)
       THEN LET lo == IF a.e < b.e THEN a.e ELSE b.e
            IN  Canon(a.m * 2 ^ (a.e - lo) - b.m * 2 ^ (b.e - lo), lo)
    ELSE IF b.m = 0 THEN a
    ELSE IF b.e >= a.e THEN SubWide(a, b)
    ELSE LET t == a.e - b.e
         IN  SubWide([hi |-> a.hi * 2 ^ t + (a.lo \div (2 ^ (LimbBits - t))),
                      lo |-> (a.lo % (2 ^ (LimbBits - t))) * 2 ^ t,
                      e |-> b.e], b)
DivF64(a, b) ==
    IF IsWide(a) THEN [a EXCEPT !.e = a.e - b.e]
    ELSE Canon(a.m * b.m, a.e - b.e)

\* the excess of a positive value over the power of two below it, counted in
\* last places of an f64 (2^-52 of that power) and capped at 2^8
ExcessUnits(data) ==
    IF IsWide(data)
       THEN IF data.hi # 2 ^ (BitLength(data.hi) - 1) \/ data.lo >= 256 THEN 256
            ELSE LET j == data.lo * 2 ^ (F64Digits - MantissaBits(data))
                 IN  IF j > 256 THEN 256 ELSE j
       ELSE IF data.m = 2 ^ (BitLength(data.m) - 1) THEN 0 ELSE 256

\* ln 2 in millionths (0.693147), for 2^x - 1 = x * ln 2 at x below 2^-43
Ln2Millionths == 693147

\* f64::log2(data) > bit_len as f64.  log2 of a negative number is NaN and
\* log2(0) is -inf, and neither compares greater.  The logarithm is rounded
\* to the nearest f64: for data = 2^bit_len * (1 + j * 2^-52) it is
\* bit_len + log2(1 + j * 2^-52), which rounds to bit_len itself unless it
\* exceeds bit_len by more than half the spacing 2^(p - 52) of the f64 values
\* at bit_len (2^p <= bit_len < 2^(p + 1)), that is unless
\* j > ln 2 * 2^(p - 1): data just above 2^bit_len passes the test.
Log2Exceeds_Floor(data, bit_len) ==
    /\ IsPositive(data)
    /\ Exponent(data) > bit_len

Log2Exceeds(data, bit_len) ==
    /\ IsPositive(data)
    /\ \/ Exponent(data) > bit_len
       \/ /\ Exponent(data) = bit_len
          /\ LET p == IF bit_len = 0 THEN 0 ELSE BitLength(bit_len) - 1
             IN  2 * ExcessUnits(data) * 1000000 > Ln2Millionths * 2 ^ p

\* `data as u64`: truncation toward zero, saturating at 0 and at u64::MAX
F64AsU64(data) ==
    IF ~IsPositive(data) THEN [i \in BitPositions |-> 0]
    ELSE IF data.e + MantissaBits(data) > 64 THEN [i \in BitPositions |-> 1]
    ELSE [i \in BitPositions |->
            LET j == i - data.e IN
            IF j < 0 THEN 0 ELSE MantissaBit(data, j)]

\* the build: with overflow checks (debug) an arithmetic overflow panics,
\* without them (release) it wraps
Builds == {"debug", "release"}

\* x << n and x >> n on u64
ShiftAmount(n, build) == IF n < 64 THEN Some(n) ELSE IF build = "debug" THEN None ELSE Some(n % 64)
Shl(w, n) == [i \in BitPositions |-> IF i >= n THEN w[i - n] ELSE 0]
Shr(w, n) == [i \in BitPositions |-> IF i + n <= 63 THEN w[i + n] ELSE 0]
BitAnd(v, w) == [i \in BitPositions |-> IF v[i] = 1 /\ w[i] = 1 THEN 1 ELSE 0]

\* 2u64.pow(bit_len as u32) - 1
BitMask_OneShort(bit_len, build) ==
    IF bit_len < 64 THEN Some([i \in BitPositions |-> IF i < bit_len - 1 THEN 1 ELSE 0])
    ELSE IF build = "debug" THEN None
    ELSE Some([i \in BitPositions |-> 1])

BitMask(bit_len, build) ==
    IF bit_len < 64 THEN Some([i \in BitPositions |-> IF i < bit_len THEN 1 ELSE 0])
    ELSE IF build = "debug" THEN None
    ELSE Some([i \in BitPositions |-> 1])

\* bit b of a byte
ByteBit(byte, b) == (byte \div (2 ^ b)) % 2

\* LittleEndian::read_u64 and BigEndian::read_u64 on the first 8 bytes
ReadU64_SameOrder(little_endian, msg) ==
    [i \in BitPositions |-> ByteBit(msg[(i \div 8) + 1], i % 8)]

ReadU64(little_endian, msg) ==
    [i \in BitPositions |->
        ByteBit(msg[IF little_endian THEN (i \div 8) + 1 ELSE 8 - (i \div 8)], i % 8)]

\* u64::to_le_bytes and u64::to_be_bytes
ToBytes(little_endian, w) ==
    [j \in 1 .. 8 |->
        LET k == IF little_endian THEN j - 1 ELSE 8 - j
        IN  BitsValue(w, 8 * k, 8 * k + 7)]

\* a |= b on bytes
ByteOr(a, b) ==
    LET bit(i) == IF ByteBit(a, i) = 1 \/ ByteBit(b, i) = 1 THEN 1 ELSE 0
        w == [i \in 0 .. 7 |-> bit(i)]
    IN  BitsValue(w, 0, 7)

\* Vec::resize(8, 0x00) on a buffer shorter than 8 bytes
Resize8_PadFront(msg) ==
    [j \in 1 .. 8 |-> IF j > 8 - Len(msg) THEN msg[j - (8 - Len(msg))] ELSE 0]

Resize8(msg) == [j \in 1 .. 8 |-> IF j <= Len(msg) THEN msg[j] ELSE 0]

(***************************************************************************)
(* mapper: the codec                                                       *)
(***************************************************************************)
SomeF32(v) == [tag |-> "Some", val |-> v]
NoneF32 == [tag |-> "None"]
Panic == [tag |-> "Panic"]

\* parse_array and decode_message after the word is read
Extract(bit_len, start_bit, scale, offset, msg64, build) ==
    LET mask == BitMask(bit_len, build)
        n == ShiftAmount(start_bit, build)
    IN  IF mask = None \/ n = None THEN Panic
        ELSE LET raw == BitAnd(Shr(msg64, n[1]), mask[1])
             IN  SomeF32(AddF32(MulF32(U64AsF32(raw), scale), offset))

\* mapper::decode_message (slices and vectors)
DecodeSlice_RejectShort(bit_len, start_bit, little_endian, scale, offset, msg, build) ==
    IF Len(msg) < 8 THEN NoneF32
    ELSE Extract(bit_len, start_bit, scale, offset, ReadU64(little_endian, msg), build)

DecodeSlice(bit_len, start_bit, little_endian, scale, offset, msg, build) ==
    IF Len(msg) = 0 THEN NoneF32
    ELSE LET padded == IF Len(msg) < 8 THEN Resize8(msg) ELSE msg
         IN  Extract(bit_len, start_bit, scale, offset,
                     ReadU64(little_endian, padded), build)

\* mapper::parse_array (arrays of 8 bytes)
ParseArray(bit_len, start_bit, little_endian, scale, offset, msg, build) ==
    Extract(bit_len, start_bit, scale, offset, ReadU64(little_endian, msg), build)

\* mapper::encode_signal
EncodeSignal(bit_len, start_bit, little_endian, scale, offset, signal, build) ==
    LET data == DivF64(SubF64(signal, offset), scale)
        n == ShiftAmount(start_bit, build)
    IN  IF Log2Exceeds(data, bit_len) THEN [tag |-> "Err", err |-> "Overflow"]
        ELSE IF n = None THEN Panic
        ELSE [tag |-> "Ok", val |-> ToBytes(little_endian, Shl(F64AsU64(data), n[1]))]

\* DbcSignal::get_definition followed by the slice decode
\* (DecodeMessage<Vec<u8>> for DbcSignal): unwrap of an absent layout panics
DbcSignalDecode_SignBitApart(signal, msg, build) ==
    IF signal.definition = None THEN Panic
    ELSE LET d == signal.definition[1]
         IN  DecodeSlice(IF d.signed THEN d.bit_len - 1 ELSE d.bit_len, d.start_bit,
                         d.little_endian, d.scale, d.offset, msg, build)

DbcSignalDecode(signal, msg, build) ==
    IF signal.definition = None THEN Panic
    ELSE LET d == signal.definition[1]
         IN  DecodeSlice(d.bit_len, d.start_bit, d.little_endian, d.scale, d.offset,
                         msg, build)

\* DecodeMessage<&[u8; 8]> for DbcSignal
DbcSignalDecodeArray(signal, msg, build) ==
    IF signal.definition = None THEN Panic
    ELSE LET d == signal.definition[1]
         IN  ParseArray(d.bit_len, d.start_bit, d.little_endian, d.scale, d.offset,
                        msg, build)

\* the bytes of the result that the loop `for i in 0..7` combines
OrIndices == 1 .. 7

\* result[i] |= byte_data[i]
OrInto_AllBytes(result, byte_data) ==
    [j \in 1 .. 8 |-> ByteOr(result[j], byte_data[j])]

OrInto_Overwrite(result, byte_data) ==
    [j \in 1 .. 8 |-> IF j \in OrIndices THEN byte_data[j] ELSE result[j]]

OrInto(result, byte_data) ==
    [j \in 1 .. 8 |-> IF j \in OrIndices THEN ByteOr(result[j], byte_data[j])
                                        ELSE result[j]]

\* the body of the loop of encode_message for the signals order[i..], in the
\* order in which get_signals() yields them
RECURSIVE EncodeLoop_SkipMissing(_, _, _, _, _, _)
EncodeLoop_SkipMissing(frame, signal_map, order, i, result, build) ==
    IF i > Len(order) THEN [tag |-> "Ok", val |-> result]
    ELSE LET signal == frame.signals[order[i]] IN
         IF signal.definition = None THEN Panic
         ELSE LET d == signal.definition[1] IN
              IF d.name \notin DOMAIN signal_map
                 THEN EncodeLoop_SkipMissing(frame, signal_map, order, i + 1, result, build)
              ELSE LET byte_data == EncodeSignal(d.bit_len, d.start_bit, d.little_endian,
                                                 d.scale, d.offset, signal_map[d.name], build)
                   IN  IF byte_data.tag = "Panic" THEN Panic
                       ELSE IF byte_data.tag = "Err"
                               THEN [tag |-> "Err", err |-> "Error encoding signal"]
                       ELSE EncodeLoop_SkipMissing(frame, signal_map, order, i + 1,
                                                   OrInto(result, byte_data.val), build)

RECURSIVE EncodeLoop(_, _, _, _, _, _)
EncodeLoop(frame, signal_map, order, i, result, build) ==
    IF i > Len(order) THEN [tag |-> "Ok", val |-> result]
    ELSE LET signal == frame.signals[order[i]] IN
         IF signal.definition = None THEN Panic
         ELSE LET d == signal.definition[1] IN
              IF d.name \notin DOMAIN signal_map
                 THEN [tag |-> "Err", err |-> "Missing signal data"]
              ELSE LET byte_data == EncodeSignal(d.bit_len, d.start_bit, d.little_endian,
                                                 d.scale, d.offset, signal_map[d.name], build)
                   IN  IF byte_data.tag = "Panic" THEN Panic
                       ELSE IF byte_data.tag = "Err"
                               THEN [tag |-> "Err", err |-> "Error encoding signal"]
                       ELSE EncodeLoop(frame, signal_map, order, i + 1,
                                       OrInto(result, byte_data.val), build)

ZeroBytes == [j \in 1 .. 8 |-> 0]

\* EncodeMessage<Vec<u8>> and EncodeMessage<[u8; 8]> for DbcFrame; `order` is
\* the order of get_signals(), any permutation of the signal names
EncodeMessage(frame, signal_map, order, build) ==
    EncodeLoop(frame, signal_map, order, 1, ZeroBytes, build)

(***************************************************************************)
(* parser: the signal record of the parser module (SignalDefinition), as   *)
(* its From conversions build it from one entry, and its decode.  The      *)
(* functions parse_array and decode_message of parser.rs are the ones of   *)
(* mapper.rs, line for line.                                               *)
(***************************************************************************)
SignalDefinitionNew(name, number, id, description, start_bit, bit_len, little_endian, signed, scale, offset) ==
    [name |-> name, number |-> number, id |-> id, description |-> description,
     start_bit |-> start_bit, bit_len |-> bit_len, little_endian |-> little_endian,
     signed |-> signed, scale |-> scale, offset |-> offset]

\* str::parse::<usize> on an attribute value
ParseUsize(value) == IF value = "190" THEN Some(190) ELSE None

\* SignalDefinition::from_entry: From<DbcSignalDefinition>,
\* From<DbcSignalDescription> and From<DbcSignalAttribute>
SignalDefinitionFromEntry(entry) ==
    CASE entry.kind = "SignalDefinition" ->
            [tag |-> "Ok",
             val |-> SignalDefinitionNew(entry.def.name, 0, 0, "", entry.def.start_bit,
                                         entry.def.bit_len, entry.def.little_endian,
                                         entry.def.signed, entry.def.scale,
                                         entry.def.offset)]
      [] entry.kind = "SignalDescription" ->
            [tag |-> "Ok",
             val |-> SignalDefinitionNew(entry.signal_name, 0, entry.id, entry.description,
                                         0, 0, TRUE, FALSE, Zero, Zero)]
      [] entry.kind = "SignalAttribute" ->
            IF ParseUsize(entry.value) = None THEN Panic
            ELSE [tag |-> "Ok",
                  val |-> SignalDefinitionNew(entry.signal_name, ParseUsize(entry.value)[1],
                                              entry.id, "", 0, 0, TRUE, FALSE, Zero, Zero)]
      [] OTHER -> [tag |-> "Err"]

\* DecodeMessage<Vec<u8>> and DecodeMessage<&[u8; 8]> for SignalDefinition
SignalDefinitionDecode(self, msg, api, build) ==
    IF api = "array"
       THEN ParseArray(self.bit_len, self.start_bit, self.little_endian,
                       self.scale, self.offset, msg, build)
       ELSE DecodeSlice(self.bit_len, self.start_bit, self.little_endian,
                        self.scale, self.offset, msg, build)

(***************************************************************************)
(* DbcLibrary                                                              *)
(***************************************************************************)
\* The first match of add_entry: the frame ID the entry is routed to.
ResolveId_ZeroIsNoContext(lid, entry) ==
    CASE entry.kind \in {"MessageDefinition", "MessageDescription", "MessageAttribute",
                         "SignalDescription", "SignalAttribute"} ->
            [ok |-> TRUE, val |-> entry.id]
      [] entry.kind = "SignalDefinition" ->
            IF lid # None /\ lid # Some(0) THEN [ok |-> TRUE, val |-> lid[1]]
                                           ELSE [ok |-> FALSE, err |-> "MissingContext"]
      [] OTHER -> [ok |-> FALSE, err |-> "UnsupportedEntry"]

ResolveId_OtherFollowsLast(lid, entry) ==
    CASE entry.kind \in {"MessageDefinition", "MessageDescription", "MessageAttribute",
                         "SignalDescription", "SignalAttribute"} ->
            [ok |-> TRUE, val |-> entry.id]
      [] entry.kind = "SignalDefinition" ->
            IF lid # None THEN [ok |-> TRUE, val |-> lid[1]]
                          ELSE [ok |-> FALSE, err |-> "MissingContext"]
      [] OTHER ->
            IF lid # None /\ entry.kind = "Unknown"
               THEN [ok |-> TRUE, val |-> lid[1]]
               ELSE [ok |-> FALSE, err |-> "UnsupportedEntry"]

ResolveId(lid, entry) ==
    CASE entry.kind \in {"MessageDefinition", "MessageDescription", "MessageAttribute",
                         "SignalDescription", "SignalAttribute"} ->
            [ok |-> TRUE, val |-> entry.id]
      [] entry.kind = "SignalDefinition" ->
            IF lid # None THEN [ok |-> TRUE, val |-> lid[1]]
                          ELSE [ok |-> FALSE, err |-> "MissingContext"]
      [] OTHER -> [ok |-> FALSE, err |-> "UnsupportedEntry"]

\* The whole of add_entry, as a function of the library (f, lid) and the entry:
\* the outcome and the library it leaves.
AddEntryResult_LastDefined(f, lid, entry) ==
    LET rid == ResolveId(lid, entry) IN
    IF ~rid.ok
       THEN [ret |-> rid.err, frames |-> f, last_id |-> lid]
       ELSE LET id == rid.val
                r  == IF id \in DOMAIN f THEN DbcFrameMergeEntry(f[id], entry)
                                         ELSE DbcFrameFromEntry(entry)
            IN  IF r.ok
                   THEN [ret |-> "Ok", frames |-> Insert(f, id, r.val),
                         last_id |-> IF entry.kind = "MessageDefinition" \/ lid = None
                                        THEN Some(id) ELSE lid]
                   ELSE [ret |-> "Panic", frames |-> f, last_id |-> lid]

AddEntryResult_KeepsFrameOnPanic(f, lid, entry) ==
    LET rid == ResolveId(lid, entry) IN
    IF ~rid.ok
       THEN [ret |-> rid.err, frames |-> f, last_id |-> lid]
       ELSE LET id == rid.val
                r  == IF id \in DOMAIN f THEN DbcFrameMergeEntry(f[id], entry)
                                         ELSE DbcFrameFromEntry(entry)
            IN  IF r.ok
                   THEN [ret |-> "Ok", frames |-> Insert(f, id, r.val), last_id |-> Some(id)]
                   ELSE [ret |-> "Panic", frames |-> Insert(f, id, DbcFrameDefault),
                         last_id |-> lid]

AddEntryResult_ErrForgetsContext(f, lid, entry) ==
    LET rid == ResolveId(lid, entry) IN
    IF ~rid.ok
       THEN [ret |-> rid.err, frames |-> f, last_id |-> None]
       ELSE LET id == rid.val
                r  == IF id \in DOMAIN f THEN DbcFrameMergeEntry(f[id], entry)
                                         ELSE DbcFrameFromEntry(entry)
            IN  IF r.ok
                   THEN [ret |-> "Ok", frames |-> Insert(f, id, r.val), last_id |-> Some(id)]
                   ELSE [ret |-> "Panic", frames |-> f, last_id |-> lid]

AddEntryResult_LastIdFirst(f, lid, entry) ==
    LET rid == ResolveId(lid, entry) IN
    IF ~rid.ok
       THEN [ret |-> rid.err, frames |-> f, last_id |-> lid]
       ELSE LET id == rid.val
                r  == IF id \in DOMAIN f THEN DbcFrameMergeEntry(f[id], entry)
                                         ELSE DbcFrameFromEntry(entry)
            IN  IF r.ok
                   THEN [ret |-> "Ok", frames |-> Insert(f, id, r.val), last_id |-> Some(id)]
                   ELSE [ret |-> "Panic", frames |-> f, last_id |-> Some(id)]

AddEntryResult(f, lid, entry) ==
    LET rid == ResolveId(lid, entry) IN
    IF ~rid.ok
       THEN [ret |-> rid.err, frames |-> f, last_id |-> lid]
       ELSE LET id == rid.val
                r  == IF id \in DOMAIN f THEN DbcFrameMergeEntry(f[id], entry)
                                         ELSE DbcFrameFromEntry(entry)
            IN  IF r.ok
                   THEN [ret |-> "Ok", frames |-> Insert(f, id, r.val), last_id |-> Some(id)]
                   ELSE [ret |-> "Panic", frames |-> f, last_id |-> lid]

\* DbcLibrary::get_frame, len and is_empty
GetFrame(f, id) == IF id \in DOMAIN f THEN Some(f[id]) ELSE None
LibraryLen(f) == Cardinality(DOMAIN f)
IsEmpty(f) == Cardinality(DOMAIN f) = 0

\* the orders in which HashMap::iter may yield the frames
IterOrders(f) ==
    {o \in [1 .. Cardinality(DOMAIN f) -> DOMAIN f] :
        \A i, j \in DOMAIN o : i # j => o[i] # o[j]}

\* Iterator::find_map over the frames from position i of the iteration on
RECURSIVE FindMap(_, _, _, _)
FindMap(f, name, order, i) ==
    IF i > Len(order) THEN None
    ELSE IF name \in DOMAIN f[order[i]].signals
            THEN Some(f[order[i]].signals[name])
            ELSE FindMap(f, name, order, i + 1)

\* DbcLibrary::get_signal, the frames iterated in the given order
GetSignal_FirstFrameOnly(f, name, order) ==
    IF Len(order) = 0 THEN None
    ELSE IF name \in DOMAIN f[order[1]].signals
            THEN Some(f[order[1]].signals[name])
            ELSE None

GetSignal(f, name, order) == FindMap(f, name, order, 1)

Idle == [kind |-> "none"]

\* DbcLibrary::default() and DbcLibrary::new(messages) for a pre-built map
PrebuiltFrame ==
    DbcFrameNew("F1", 1, 8, "N1", EmptyMap, None,
                Insert(EmptyMap, "s1", DbcSignalNew(None, Some("d1"), EmptyMap)))
InitialMaps == {EmptyMap, Insert(EmptyMap, 1, PrebuiltFrame)}

Init ==
    /\ frames \in InitialMaps
    /\ last_id = None
    /\ ret = "New"
    /\ call = None
    /\ steps = 0
    /\ touched = None
    /\ profile = "debug"
    /\ op = Idle

add_entry(entry) ==
    /\ ret # "Panic"
    /\ steps < MaxSteps
    /\ LET r == AddEntryResult(frames, last_id, entry) IN
        /\ frames' = r.frames
        /\ last_id' = r.last_id
        /\ ret' = r.ret
        /\ touched' = IF r.ret # "Ok" THEN touched
                       ELSE IF entry.kind = "SignalDefinition" THEN touched
                       ELSE Some(entry.id)
    /\ call' = Some(entry)
    /\ steps' = steps + 1
    /\ UNCHANGED codecvars

Next == \E entry \in Entries : add_entry(entry)

Spec == Init /\ [][Next]_vars

(***************************************************************************)
(* The whole-file loader.  A file is a sequence of lines; a line is the    *)
(* text that the regular expressions of dbc::parser look at, kept as its   *)
(* keyword and the texts of the capture groups.                            *)
(***************************************************************************)
\* str::parse::<u32> on the digits of an ID: digits beyond u32 do not parse
ParseU32(digits) ==
    CASE digits = "0" -> Some(0)
      [] digits = "1" -> Some(1)
      [] OTHER -> None

\* dbc::parser::parse_dbc: the entry of a line that matches one of the six
\* expressions, None for a line that matches none; the unwrap of an ID that
\* does not fit u32 panics
parse_dbc(line) ==
    IF line.kw \notin {"BO_", "CM_ BO_", "BA_ BO_", "SG_", "CM_ SG_", "BA_ SG_"}
       THEN [tag |-> "None"]
    ELSE IF line.kw = "SG_"
       THEN [tag |-> "Some", val |-> [kind |-> "SignalDefinition", def |-> line.def]]
    ELSE IF ParseU32(line.id) = None THEN Panic
    ELSE LET id == ParseU32(line.id)[1] IN
         [tag |-> "Some",
          val |-> CASE line.kw = "BO_" ->
                          [kind |-> "MessageDefinition", id |-> id, name |-> line.name,
                           message_len |-> line.len, sending_node |-> line.node]
                    [] line.kw = "CM_ BO_" ->
                          [kind |-> "MessageDescription", id |-> id,
                           description |-> line.description]
                    [] line.kw = "BA_ BO_" ->
                          [kind |-> "MessageAttribute", id |-> id, name |-> line.key,
                           value |-> line.value]
                    [] line.kw = "CM_ SG_" ->
                          [kind |-> "SignalDescription", id |-> id,
                           signal_name |-> line.name, description |-> line.description]
                    [] line.kw = "BA_ SG_" ->
                          [kind |-> "SignalAttribute", id |-> id, signal_name |-> line.name,
                           name |-> line.key, value |-> line.value]]

\* the loop over data.lines() from line i on; lib is the library built so far
RECURSIVE LoadLines(_, _, _)
LoadLines(lines, i, lib) ==
    IF i > Len(lines) THEN [ret |-> "Ok", frames |-> lib.frames, last_id |-> lib.last_id]
    ELSE IF lines[i].kw = "" THEN LoadLines(lines, i + 1, lib)
    ELSE LET parsed == parse_dbc(lines[i]) IN
         IF parsed.tag = "Panic" THEN [ret |-> "Panic", frames |-> lib.frames,
                                       last_id |-> lib.last_id]
         ELSE IF parsed.tag = "None" THEN LoadLines(lines, i + 1, lib)
         ELSE LET r == AddEntryResult(lib.frames, lib.last_id, parsed.val) IN
              IF r.ret = "Panic" THEN r
              ELSE LoadLines(lines, i + 1, [frames |-> r.frames, last_id |-> r.last_id])

\* DbcLibrary::from_dbc_file / from_encoded_dbc_file
FromDbcFile(file) ==
    IF ~file.exists
       THEN [ret |-> "IoError", frames |-> EmptyMap, last_id |-> None]
       ELSE LoadLines(file.lines, 1, [frames |-> EmptyMap, last_id |-> None])

\* the lines of the files
FileLines ==
    { [kw |-> ""],
      [kw |-> "VERSION"],
      [kw |-> "BO_", id |-> "1", name |-> "F1", len |-> 8, node |-> "N1"],
      [kw |-> "BO_", id |-> "4294967296", name |-> "F2", len |-> 6, node |-> "N2"],
      [kw |-> "CM_ BO_", id |-> "0", description |-> "d1"],
      [kw |-> "BA_ BO_", id |-> "1", key |-> "k1", value |-> "v1"],
      [kw |-> "SG_", def |-> SignalDef("s1", 24, 16, TRUE, 0, 0)],
      [kw |-> "CM_ SG_", id |-> "1", name |-> "s1", description |-> "d2"],
      [kw |-> "CM_ SG_", id |-> "0", name |-> "s2", description |-> "d1"],
      [kw |-> "BA_ SG_", id |-> "1", name |-> "s1", key |-> "k2", value |-> "v2"] }

Files ==
    {[exists |-> FALSE, lines |-> << >>]}
    \cup {[exists |-> TRUE, lines |-> l] :
             l \in UNION {[1 .. n -> FileLines] : n \in 0 .. MaxLines}}

LoaderInit ==
    /\ frames = EmptyMap
    /\ last_id = None
    /\ ret = "New"
    /\ call = None
    /\ steps = 0
    /\ touched = None
    /\ profile = "debug"
    /\ op = Idle

\* one call of from_dbc_file; the library it returns, if it returns one
from_dbc_file(file) ==
    /\ call = None
    /\ LET r == FromDbcFile(file) IN
          /\ frames' = r.frames
          /\ last_id' = r.last_id
          /\ ret' = r.ret
    /\ call' = Some(file)
    /\ UNCHANGED <<steps, touched, codecvars>>

LoaderNext == \E file \in Files : from_dbc_file(file)

LoaderSpec == LoaderInit /\ [][LoaderNext]_vars

(***************************************************************************)
(* parser: the library of the parser module (parser::DbcLibrary), its      *)
(* frame record FrameDefinition and the merge of its signal record.        *)
(* last_id is a u32 that new() sets to 0.                                  *)
(***************************************************************************)
\* SignalDefinition::merge_entry.  The record is changed in place: the
\* SignalAttribute arm assigns name and id and then unwraps the parse of the
\* value, so a call that panics leaves the record with the new name and id
\* (field self of the outcome)
SignalDefinitionMergeEntry(self, entry) ==
    CASE entry.kind = "SignalDefinition" ->
            [tag |-> "Ok",
             val |-> [self EXCEPT !.name = entry.def.name,
                                  !.start_bit = entry.def.start_bit,
                                  !.bit_len = entry.def.bit_len,
                                  !.little_endian = entry.def.little_endian,
                                  !.signed = entry.def.signed,
                                  !.scale = entry.def.scale,
                                  !.offset = entry.def.offset]]
      [] entry.kind = "SignalDescription" ->
            [tag |-> "Ok",
             val |-> [self EXCEPT !.name = entry.signal_name,
                                  !.id = entry.id,
                                  !.description = entry.description]]
      [] entry.kind = "SignalAttribute" ->
            LET named == [self EXCEPT !.name = entry.signal_name, !.id = entry.id]
            IN  IF ParseUsize(entry.value) = None
                   THEN [tag |-> "Panic", self |-> named]
                   ELSE [tag |-> "Ok",
                         val |-> [named EXCEPT !.number = ParseUsize(entry.value)[1]]]
      [] OTHER -> [tag |-> "Err", self |-> self]

FrameDefinitionNew(id, name_abbrev, description, length, signals) ==
    [id |-> id, name_abbrev |-> name_abbrev, description |-> description,
     length |-> length, signals |-> signals]

\* FrameDefinition::from_entry
FrameDefinitionFromEntry(entry) ==
    CASE entry.kind = "MessageDefinition" ->
            [tag |-> "Ok", val |-> FrameDefinitionNew(entry.id, entry.name, "", 0, EmptyMap)]
      [] entry.kind = "MessageDescription" ->
            [tag |-> "Ok",
             val |-> FrameDefinitionNew(entry.id, "", entry.description, 0, EmptyMap)]
      [] entry.kind = "MessageAttribute" ->
            [tag |-> "Ok", val |-> FrameDefinitionNew(entry.id, "", "", 0, EmptyMap)]
      [] OTHER -> [tag |-> "Err"]

\* FrameDefinition::merge_entry; the signal arms unwrap what the signal
\* record returns.  A known signal is merged in place in the map, so a panic
\* of its merge leaves the frame (field self of the outcome) with that
\* record as the merge left it; a panic of from_entry comes before the
\* insert and leaves the frame as it was
FrameDefinitionMergeEntry(self, entry) ==
    CASE entry.kind = "MessageDefinition" ->
            [tag |-> "Ok", val |-> [self EXCEPT !.id = entry.id,
                                                !.length = entry.message_len]]
      [] entry.kind = "MessageDescription" ->
            [tag |-> "Ok", val |-> [self EXCEPT !.id = entry.id,
                                                !.description = entry.description]]
      [] entry.kind = "MessageAttribute" ->
            [tag |-> "Ok", val |-> [self EXCEPT !.id = entry.id]]
      [] entry.kind \in {"SignalDefinition", "SignalDescription", "SignalAttribute"} ->
            IF entry.kind = "SignalAttribute" /\ entry.name # "SPN"
               THEN [tag |-> "Ok", val |-> self]
               ELSE LET name == SignalKey(entry)
                        known == name \in DOMAIN self.signals
                        r == IF known
                                THEN SignalDefinitionMergeEntry(self.signals[name], entry)
                                ELSE SignalDefinitionFromEntry(entry)
                    IN  IF r.tag = "Ok"
                           THEN [tag |-> "Ok",
                                 val |-> [self EXCEPT !.signals = Insert(@, name, r.val)]]
                           ELSE [tag |-> "Panic",
                                 self |-> IF known
                                             THEN [self EXCEPT !.signals[name] = r.self]
                                             ELSE self]
      [] OTHER -> [tag |-> "Err", self |-> self]

\* The first match of parser::DbcLibrary::add_entry
ParserResolveId(lid, entry) ==
    CASE entry.kind \in {"MessageDefinition", "MessageDescription", "MessageAttribute",
                         "SignalDescription", "SignalAttribute"} ->
            [ok |-> TRUE, val |-> entry.id]
      [] entry.kind = "SignalDefinition" ->
            IF lid = 0 THEN [ok |-> FALSE, err |-> "MissingContext"]
                       ELSE [ok |-> TRUE, val |-> lid]
      [] OTHER -> [ok |-> FALSE, err |-> "UnsupportedEntry"]

\* The whole of parser::DbcLibrary::add_entry: last_id is assigned before the
\* frame map is looked at, and both arms unwrap: the occupied arm merges into
\* the frame of the map in place, so a panic leaves that frame as the merge
\* left it, and the vacant arm panics before it inserts
ParserAddEntryResult(f, lid, entry) ==
    LET rid == ParserResolveId(lid, entry) IN
    IF ~rid.ok
       THEN [ret |-> rid.err, frames |-> f, last_id |-> lid]
       ELSE LET id == rid.val
                r  == IF id \in DOMAIN f THEN FrameDefinitionMergeEntry(f[id], entry)
                                         ELSE FrameDefinitionFromEntry(entry)
            IN  IF r.tag = "Ok"
                   THEN [ret |-> "Ok", frames |-> Insert(f, id, r.val), last_id |-> id]
                   ELSE [ret |-> "Panic",
                         frames |-> IF id \in DOMAIN f THEN Insert(f, id, r.self) ELSE f,
                         last_id |-> id]

\* the entries handed to the library of the parser module
ParserSignalDefinitions ==
    {[kind |-> "SignalDefinition", def |-> SignalDef(n, l[1], l[2], l[3], Dy(1, -3), Zero)] :
        n \in SignalNames, l \in {<<24, 16, TRUE>>, <<0, 8, FALSE>>}}
ParserLibraryEntries ==
    MessageDefinitions
    \cup {e \in MessageDescriptions : e.description = "d1"}
    \cup {e \in MessageAttributes : e.name = "k1" /\ e.value = "v1"}
    \cup ParserSignalDefinitions
    \cup SignalDescriptions
    \cup {e \in SignalAttributes : e.signal_name = "s1" /\ e.name = "k1" /\ e.value = "v1"}
    \cup {[kind |-> "SignalAttribute", id |-> i, signal_name |-> "s1", name |-> "SPN",
           value |-> v] : i \in IDs, v \in {"190", "v1"}}
    \cup OtherEntries

\* DbcLibrary::default() of the parser module: new(HashMap::default())
ParserInit ==
    /\ frames = EmptyMap
    /\ last_id = 0
    /\ ret = "New"
    /\ call = None
    /\ steps = 0
    /\ touched = None
    /\ profile = "debug"
    /\ op = Idle

\* one call of parser::DbcLibrary::add_entry; touched is the ID of the frame
\* the latest successful call was routed to
parser_add_entry(entry) ==
    /\ ret # "Panic"
    /\ steps < MaxSteps
    /\ LET r == ParserAddEntryResult(frames, last_id, entry) IN
        /\ frames' = r.frames
        /\ last_id' = r.last_id
        /\ ret' = r.ret
        /\ touched' = IF r.ret # "Ok" THEN touched
                       ELSE IF entry.kind = "SignalDefinition" THEN touched
                       ELSE Some(entry.id)
    /\ call' = Some(entry)
    /\ steps' = steps + 1
    /\ UNCHANGED codecvars

ParserNext == \E entry \in ParserLibraryEntries : parser_add_entry(entry)

ParserSpec == ParserInit /\ [][ParserNext]_vars

(***************************************************************************)
(* The codec as a state machine: calls of decode_message, encode_signal    *)
(* and encode_message on signals and frames built with DbcSignal::new and  *)
(* DbcFrame::new, and decodes of the bytes an encode call returned.        *)
(***************************************************************************)
\* exact arithmetic, for the physical value r * scale + offset of a raw r
MulExact(a, b) == Canon(a.m * b.m, a.e + b.e)
AddExact(a, b) ==
    LET lo == IF a.e < b.e THEN a.e ELSE b.e
    IN  Canon(a.m * 2 ^ (a.e - lo) + b.m * 2 ^ (b.e - lo), lo)
Physical(d, r) == AddExact(MulExact(Dy(r, 0), d.scale), d.offset)

\* (start_bit, bit_len) of the layouts
LayoutShapes ==
    {<<24, 16>>, <<41, 16>>, <<0, 8>>, <<56, 8>>, <<7, 10>>, <<0, 1>>, <<63, 1>>,
     <<0, 25>>, <<32, 32>>, <<0, 50>>, <<0, 64>>}
\* (scale, offset): (1, 0), (0.125, 0) and (0.125, 10)
ScaleOffsets == {<<Dy(1, 0), Zero>>, <<Dy(1, -3), Zero>>, <<Dy(1, -3), Dy(10, 0)>>}

\* every layout unsigned, and the layouts with scale 1 and offset 0 signed too
CodecDefs ==
    {SignalDef("sig", sh[1], sh[2], le, so[1], so[2]) :
        sh \in LayoutShapes, le \in BOOLEAN, so \in ScaleOffsets}
    \cup {WithSigned(SignalDef("sig", sh[1], sh[2], le, Dy(1, 0), Zero), TRUE) :
             sh \in LayoutShapes, le \in BOOLEAN}

LayoutlessSignal == DbcSignalNew(None, Some("d1"), EmptyMap)
CodecSignals == {DbcSignalNew(Some(d), None, EmptyMap) : d \in CodecDefs} \cup {LayoutlessSignal}

MSG == <<17, 34, 51, 68, 85, 102, 119, 136>>
MSG_BE == <<136, 119, 102, 85, 68, 51, 34, 17>>
FullMessages == {MSG, MSG_BE, [j \in 1 .. 8 |-> 255], <<1, 0, 0, 128, 0, 0, 0, 129>>}
Prefix(m, k) == SubSeq(m, 1, k)
DecodeInputs == {Prefix(m, k) : m \in FullMessages, k \in 0 .. 8} \cup {MSG \o <<153>>}

\* raw integers, and a few values that are no image of a raw integer
RawCandidates ==
    {0, 1, 2, 255, 256, 21828, 65535, 65536, 65537, 16777215, 16777216, 16777217}
RawInputs(d) == {r \in RawCandidates : d.bit_len > 30 \/ r <= 2 ^ d.bit_len + 1}
OtherSignals == {Dy(-5, 0), Dy(5457, -1), Dy(21, -2)}

\* values whose raw lies next to the bound of the overflow check:
\* raw = 2^bit_len * (1 + j * 2^-52), the j-th f64 above 2^bit_len, as the
\* physical value raw * scale + offset when an f64 holds that value exactly
BoundarySteps == {1, 2, 3, 4, 5, 6, 11, 12, 22, 23}
HasBoundarySignals(d) ==
    /\ d.scale.m = 1
    /\ d.offset.m >= 0
    /\ d.offset.m > 0 =>
          LET s == d.offset.e - (d.bit_len - (F64Digits - 1) + d.scale.e)
          IN  s >= 0 /\ BitLength(d.offset.m) + s < F64Digits - 1
BoundarySignal(d, j) ==
    LET e == d.bit_len - (F64Digits - 1) + d.scale.e
        c == IF d.offset.m = 0 THEN <<0, 0>> ELSE LimbsOf(d.offset.m, d.offset.e - e)
    IN  Wide(2 ^ LimbBits + c[1] + ((j + c[2]) \div (2 ^ LimbBits)),
             (j + c[2]) % (2 ^ LimbBits), e)
BoundarySignals(d) ==
    IF HasBoundarySignals(d) THEN {BoundarySignal(d, j) : j \in BoundarySteps} ELSE {}

\* the frame of tests.rs (FRAME_DEF), whose second signal is stored under
\* its own key and keeps the name of the first in its layout; frames as
\* add_entry builds them, every signal under the name of its layout: the
\* two layouts of FRAME_DEF, one whose signals lie in the first and the last
\* payload byte, one big-endian; and one that owns a layoutless signal
FrameOf(signals) == DbcFrameNew("test", 1, 8, "N1", EmptyMap, None, signals)
TwoSignals(d1, d2) ==
    Insert(Insert(EmptyMap, "s1", DbcSignalNew(Some(d1), None, EmptyMap)),
           "s2", DbcSignalNew(Some(d2), None, EmptyMap))
CodecFrames ==
    { FrameOf(TwoSignals(SignalDef("s1", 24, 16, TRUE, Dy(1, -3), Zero),
                         SignalDef("s1", 41, 16, FALSE, Dy(1, -3), Dy(10, 0)))),
      FrameOf(TwoSignals(SignalDef("s1", 24, 16, TRUE, Dy(1, -3), Zero),
                         SignalDef("s2", 41, 16, FALSE, Dy(1, -3), Dy(10, 0)))),
      FrameOf(TwoSignals(SignalDef("s1", 0, 8, TRUE, Dy(1, 0), Zero),
                         SignalDef("s2", 56, 8, TRUE, Dy(1, 0), Zero))),
      FrameOf(TwoSignals(SignalDef("s1", 0, 8, FALSE, Dy(1, 0), Zero),
                         SignalDef("s2", 48, 16, FALSE, Dy(1, 0), Zero))),
      FrameOf(Insert(Insert(EmptyMap, "s1",
                            DbcSignalNew(Some(SignalDef("s1", 0, 8, TRUE, Dy(1, 0), Zero)),
                                         None, EmptyMap)),
                     "s2", LayoutlessSignal)) }

FrameRaws == {1, 255, 21828, 70000}
MapNames == {"s1", "s2", "other"}
ValuesFor(frame, n) ==
    IF n \in DOMAIN frame.signals /\ frame.signals[n].definition # None
       THEN {Physical(frame.signals[n].definition[1], r) : r \in FrameRaws}
       ELSE {Dy(1, 0)}
SignalMaps(frame) ==
    UNION {{m \in [names -> UNION {ValuesFor(frame, n) : n \in names}] :
               \A n \in names : m[n] \in ValuesFor(frame, n)} :
           names \in SUBSET MapNames}
Orders(frame) ==
    {o \in [1 .. Cardinality(DOMAIN frame.signals) -> DOMAIN frame.signals] :
        \A i, j \in DOMAIN o : i # j => o[i] # o[j]}

CodecInit ==
    /\ frames = EmptyMap
    /\ last_id = None
    /\ ret = "New"
    /\ call = None
    /\ steps = 0
    /\ touched = None
    /\ profile \in Builds
    /\ op = Idle

\* The codec functions are pure: a call depends on its arguments and on the
\* build only, so every behaviour makes one call on fresh arguments and may
\* then decode what that call returned.

\* signal.decode_message(msg) on a buffer supplied by the caller
decode_message(signal, msg, api) ==
    /\ op = Idle
    /\ api = "array" => Len(msg) = 8
    /\ op' = [kind |-> "decode", api |-> api, signal |-> signal, msg |-> msg,
              from |-> None,
              out |-> IF api = "array" THEN DbcSignalDecodeArray(signal, msg, profile)
                                       ELSE DbcSignalDecode(signal, msg, profile)]
    /\ UNCHANGED <<libvars, profile>>

\* encode_signal for a layout and a physical value; raw is the integer the
\* value was derived from, when there is one
encode_signal(d, raw, signal) ==
    /\ op = Idle
    /\ op' = [kind |-> "encode_signal", def |-> d, raw |-> raw, signal |-> signal,
              out |-> EncodeSignal(d.bit_len, d.start_bit, d.little_endian,
                                   d.scale, d.offset, signal, profile)]
    /\ UNCHANGED <<libvars, profile>>

\* frame.encode_message(&signal_map), the signals visited in the given order
encode_message(frame, signal_map, order, api) ==
    /\ op = Idle
    /\ op' = [kind |-> "encode_message", api |-> api, frame |-> frame,
              signal_map |-> signal_map, order |-> order,
              out |-> EncodeMessage(frame, signal_map, order, profile)]
    /\ UNCHANGED <<libvars, profile>>

\* decode of the bytes that the latest encode call returned, with the layout
\* that produced them (encode_signal) or a signal of the frame (encode_message)
decode_encoded(api) ==
    /\ op.kind \in {"encode_signal", "encode_message"}
    /\ op.out.tag = "Ok"
    /\ \E signal \in IF op.kind = "encode_signal"
                       THEN {DbcSignalNew(Some(op.def), None, EmptyMap)}
                       ELSE {op.frame.signals[n] : n \in DOMAIN op.frame.signals} :
          op' = [kind |-> "decode", api |-> api, signal |-> signal, msg |-> op.out.val,
                 from |-> Some(op),
                 out |-> IF api = "array"
                            THEN DbcSignalDecodeArray(signal, op.out.val, profile)
                            ELSE DbcSignalDecode(signal, op.out.val, profile)]
    /\ UNCHANGED <<libvars, profile>>

\* SignalDefinition::from_entry(entry) of the parser module, then
\* decode_message(msg) on the record it returned
parser_decode_message(entry, msg, api) ==
    /\ op = Idle
    /\ api = "array" => Len(msg) = 8
    /\ LET made == SignalDefinitionFromEntry(entry) IN
          op' = [kind |-> "parser_decode", api |-> api, entry |-> entry, msg |-> msg,
                 out |-> IF made.tag = "Ok"
                            THEN SignalDefinitionDecode(made.val, msg, api, profile)
                            ELSE Panic]
    /\ UNCHANGED <<libvars, profile>>

Apis == {"vec", "array"}

\* entries handed to the parser module: descriptions and attributes of a
\* signal that has no definition yet, and the definition of tests.rs
ParserEntries ==
    {e \in SignalDescriptions : e.id = 1}
    \cup {[kind |-> "SignalAttribute", id |-> 1, signal_name |-> "s1", name |-> "SPN",
           value |-> v] : v \in {"190", "v1"}}
    \cup {[kind |-> "SignalDefinition",
           def |-> SignalDef("s1", 24, 16, le, Dy(1, -3), Zero)] : le \in BOOLEAN}

CodecNext ==
    \/ \E signal \in CodecSignals, msg \in DecodeInputs, api \in Apis :
          decode_message(signal, msg, api)
    \/ \E d \in CodecDefs : \E r \in RawInputs(d) : encode_signal(d, Some(r), Physical(d, r))
    \/ \E d \in CodecDefs : \E v \in OtherSignals \cup BoundarySignals(d) :
          encode_signal(d, None, v)
    \/ \E frame \in CodecFrames, api \in Apis :
          \E signal_map \in SignalMaps(frame), order \in Orders(frame) :
             encode_message(frame, signal_map, order, api)
    \/ \E api \in Apis : decode_encoded(api)
    \/ \E entry \in ParserEntries, msg \in DecodeInputs, api \in Apis :
          parser_decode_message(entry, msg, api)

CodecSpec == CodecInit /\ [][CodecNext]_vars

(***************************************************************************)
(* Properties of the ingest/merge engine.                                  *)
(***************************************************************************)
\* the step is an add_entry call with this entry
Called(entry) == steps' = steps + 1 /\ call' = Some(entry)

\* C1: an accepted SignalDefinition is stored under its signal name in the
\* frame the most recent successful add_entry was routed to, whatever the
\* kind of that entry; the signals of every other frame are unchanged, and
\* last_id names the most recently touched frame.
C1_SignalJoinsLastTouchedFrame ==
    [][ /\ last_id' = touched'
        /\ \A e \in SignalDefinitions :
              (Called(e) /\ ret' = "Ok") =>
                 /\ touched # None
                 /\ LET id == touched[1]
                        n  == e.def.name
                    IN  /\ DOMAIN frames' = DOMAIN frames
                        /\ id \in DOMAIN frames'
                        /\ n \in DOMAIN frames'[id].signals
                        /\ frames'[id].signals[n].definition = Some(e.def)
                        /\ \A j \in DOMAIN frames \ {id} :
                              frames'[j].signals = frames[j].signals ]_vars

\* a SignalDefinition was accepted into a frame that no MessageDefinition ever
\* named, while another frame had been defined earlier
C1_Witness ==
    /\ call # None /\ call[1].kind = "SignalDefinition" /\ ret = "Ok"
    /\ \E id \in DOMAIN frames, j \in DOMAIN frames :
          /\ j # id
          /\ last_id = Some(id)
          /\ frames[id].name = "" /\ frames[j].name # ""
          /\ call[1].def.name \in DOMAIN frames[id].signals
          /\ frames[j].signals = EmptyMap

\* C2: a SignalDefinition is rejected with the missing-context error exactly
\* when no earlier add_entry on the library has succeeded; after any accepted
\* entry every SignalDefinition is accepted.
C2_MissingContextIffNoSuccess ==
    [][ \A e \in SignalDefinitions :
          Called(e) =>
             /\ (ret' = "MissingContext") <=> (touched = None)
             /\ (touched # None) => (ret' = "Ok") ]_vars

\* a SignalDefinition accepted after an entry for frame 0, and one rejected
\* after a failed call on a library built by new() from a non-empty map
C2_Witness ==
    /\ call # None /\ call[1].kind = "SignalDefinition"
    /\ \/ ret = "Ok" /\ touched = Some(0)
       \/ ret = "MissingContext" /\ steps > 1 /\ frames # EmptyMap

\* C3: every supported entry whose ID has no Frame Record creates the frame
\* and returns Ok.
C3_CreatesFrameForEveryKind ==
    [][ \A e \in Entries \ OtherEntries :
          (Called(e) /\ ResolveId(last_id, e).ok
                     /\ ResolveId(last_id, e).val \notin DOMAIN frames) =>
             /\ ret' = "Ok"
             /\ ResolveId(last_id, e).val \in DOMAIN frames' ]_vars

\* C4: Version, BusConfiguration and Unknown entries are answered with the
\* unsupported-entry error in every library state, and leave the library as
\* it was.
C4_UnsupportedEntryRejected ==
    [][ \A e \in OtherEntries :
          Called(e) =>
             /\ ret' = "UnsupportedEntry"
             /\ frames' = frames
             /\ last_id' = last_id ]_vars

\* an Unknown entry rejected by a populated library that has a last_id
C4_Witness ==
    /\ call # None /\ call[1].kind = "Unknown"
    /\ ret = "UnsupportedEntry"
    /\ last_id # None
    /\ frames # EmptyMap

\* the fields of a Frame Record, and those an entry kind carries
FrameFields ==
    {"name", "id", "message_len", "sending_node", "attributes", "description", "signals"}
CarriedFields(kind) ==
    CASE kind = "MessageDefinition" -> {"name", "message_len", "sending_node"}
      [] kind = "MessageDescription" -> {"description"}
      [] kind = "MessageAttribute" -> {"attributes"}
      [] OTHER -> {"signals"}

\* the map differs from the old one at most at key k
SameExceptAt(new, old, k) ==
    /\ DOMAIN new = (DOMAIN old) \cup {k}
    /\ \A x \in DOMAIN old \ {k} : new[x] = old[x]

\* C12: an entry merged into an existing Frame Record overwrites exactly the
\* fields its kind carries: a definition the name, length and sending node, a
\* description the description, an attribute the value under its key, a
\* signal entry the Signal Record under its signal name; every other field
\* of the frame and every other frame stay as they were.
C12_MergeTouchesCarriedFieldsOnly ==
    [][ \A e \in Entries \ OtherEntries :
          (Called(e) /\ ret' = "Ok" /\ ResolveId(last_id, e).val \in DOMAIN frames) =>
             LET id  == ResolveId(last_id, e).val
                 old == frames[id]
                 new == frames'[id]
             IN  /\ SameExceptAt(frames', frames, id)
                 /\ id \in DOMAIN frames
                 /\ \A f \in FrameFields \ CarriedFields(e.kind) : new[f] = old[f]
                 /\ e.kind = "MessageDefinition" =>
                       /\ new.name = e.name
                       /\ new.message_len = e.message_len
                       /\ new.sending_node = e.sending_node
                 /\ e.kind = "MessageDescription" => new.description = Some(e.description)
                 /\ e.kind = "MessageAttribute" =>
                       /\ SameExceptAt(new.attributes, old.attributes, e.name)
                       /\ new.attributes[e.name] = e.value
                 /\ e.kind \in {"SignalDefinition", "SignalDescription", "SignalAttribute"} =>
                       SameExceptAt(new.signals, old.signals, SignalKey(e)) ]_vars

\* a definition merged into a frame that already had a description and a
\* signal: name, length and node are new, the rest is kept
C12_Witness ==
    /\ call # None /\ call[1].kind = "MessageDefinition" /\ ret = "Ok"
    /\ 1 \in DOMAIN frames
    /\ call[1].id = 1 /\ call[1].name = "F2"
    /\ frames[1].name = "F2" /\ frames[1].message_len = 6
    /\ frames[1].description = Some("d2")
    /\ frames[1].signals = PrebuiltFrame.signals

\* C13: every Frame Record that get_frame(k) returns reports get_id() = k,
\* and merging later entries never changes that ID.
C13_FrameIdIsKey ==
    \A k \in DOMAIN frames : frames[k].id = k

\* C14: add_entry never removes anything, whether it succeeds or fails: a
\* frame ID stays in the frame map, a signal name stays in the signal map of
\* its frame, and len() does not decrease.
C14_AppendMergeOnly ==
    [][ /\ DOMAIN frames \subseteq DOMAIN frames'
        /\ \A k \in DOMAIN frames :
              DOMAIN frames[k].signals \subseteq DOMAIN frames'[k].signals
        /\ Cardinality(DOMAIN frames') >= Cardinality(DOMAIN frames) ]_vars

\* a call that failed on a library holding a frame with two signals
C14_Witness ==
    /\ ret = "Panic"
    /\ 1 \in DOMAIN frames
    /\ DOMAIN frames[1].signals = {"s1", "s2"}

\* C15: a SignalAttribute for an existing frame is accepted whatever its
\* key; afterwards the signal reports the value under that key (a later
\* value for the same key replaces the earlier one) and the attributes under
\* every other key are kept.
C15_SignalAttributeAnyKey ==
    [][ \A e \in SignalAttributes :
          (Called(e) /\ e.id \in DOMAIN frames) =>
             /\ ret' = "Ok"
             /\ e.signal_name \in DOMAIN frames'[e.id].signals
             /\ LET new == frames'[e.id].signals[e.signal_name].attributes
                     old == IF e.signal_name \in DOMAIN frames[e.id].signals
                               THEN frames[e.id].signals[e.signal_name].attributes
                               ELSE EmptyMap
                 IN  /\ new[e.name] = e.value
                     /\ SameExceptAt(new, old, e.name) ]_vars

\* an attribute stored beside an attribute under another key
C15_Witness ==
    /\ call # None /\ call[1].kind = "SignalAttribute" /\ ret = "Ok"
    /\ call[1].name = "k1" /\ call[1].value = "v2"
    /\ LET id == call[1].id
           n  == call[1].signal_name
       IN  /\ id \in DOMAIN frames
           /\ n \in DOMAIN frames[id].signals
           /\ frames[id].signals[n].attributes = [k \in Keys |-> "v2"]
           /\ steps = 3

\* names a get_signal call may ask for, one of them owned by no frame
QueryNames == SignalNames \cup {"other"}

\* C21: get_signal(name) returns a record exactly when some frame of the
\* library owns a signal with that name, whatever the order in which the
\* frames are iterated, and the record is the one a frame that owns the name
\* stores under it.
C21_GetSignalFindsOwner ==
    \A name \in QueryNames, order \in IterOrders(frames) :
       LET got == GetSignal(frames, name, order)
           owners == {k \in DOMAIN frames : name \in DOMAIN frames[k].signals}
       IN  /\ (got # None) <=> (owners # {})
           /\ got # None => \E k \in owners : got = Some(frames[k].signals[name])

\* two frames own "s1" with different records, so that the iteration order
\* decides the answer, and only the frame iterated second owns "s2"
C21_Witness ==
    /\ DOMAIN frames = {0, 1}
    /\ GetSignal(frames, "s1", <<0, 1>>) # None
    /\ GetSignal(frames, "s1", <<1, 0>>) # None
    /\ GetSignal(frames, "s1", <<0, 1>>) # GetSignal(frames, "s1", <<1, 0>>)
    /\ "s2" \notin DOMAIN frames[0].signals
    /\ "s2" \in DOMAIN frames[1].signals
    /\ GetSignal(frames, "s2", <<0, 1>>) = Some(frames[1].signals["s2"])
    /\ GetSignal(frames, "other", <<0, 1>>) = None

\* IDs a get_frame call may ask for, one of them carried by no entry
QueryIds == IDs \cup {2}

\* C22: a library created empty has len() = 0; every successful add_entry
\* adds the ID it resolved (the entry's own ID, or for a SignalDefinition the
\* ID of the last touched frame) to the IDs for which get_frame is Some, and
\* every other call adds none; len() counts those IDs and is_empty() holds
\* exactly when len() = 0.
C22_LenCountsResolvedIds ==
    [][ /\ (steps = 0 /\ frames = EmptyMap) => (LibraryLen(frames) = 0 /\ IsEmpty(frames))
        /\ IsEmpty(frames') <=> (LibraryLen(frames') = 0)
        /\ LibraryLen(frames') =
              Cardinality({id \in QueryIds : GetFrame(frames', id) # None})
        /\ steps' = steps + 1 =>
              LET e == call'[1]
                  resolved == IF ret' # "Ok" THEN {}
                              ELSE IF e.kind = "SignalDefinition" THEN {touched[1]}
                              ELSE {e.id}
              IN  \A id \in QueryIds :
                     (GetFrame(frames', id) # None)
                        <=> (GetFrame(frames, id) # None \/ id \in resolved) ]_vars

\* a library created empty that holds two frames after three calls, one of
\* which was rejected
C22_Witness ==
    /\ steps = 3 /\ ret = "UnsupportedEntry"
    /\ LibraryLen(frames) = 2 /\ ~IsEmpty(frames)
    /\ GetFrame(frames, 0) # None /\ GetFrame(frames, 1) # None
    /\ frames[1].signals = EmptyMap

\* C26: in an existing frame a SignalDescription or SignalAttribute for a
\* signal name the frame does not know creates a Signal Record without a
\* layout; a SignalDefinition routed to a frame that knows its name sets the
\* layout of that record and keeps its description and attributes, whether
\* the record had a layout before or not, and adds no record.
C26_DefinitionMergesIntoRecord ==
    [][ steps' = steps + 1 =>
           LET e == call'[1] IN
           /\ (e.kind \in {"SignalDescription", "SignalAttribute"}
                   /\ e.id \in DOMAIN frames
                   /\ e.signal_name \notin DOMAIN frames[e.id].signals) =>
                 /\ ret' = "Ok"
                 /\ DOMAIN frames'[e.id].signals =
                       DOMAIN frames[e.id].signals \cup {e.signal_name}
                 /\ frames'[e.id].signals[e.signal_name] =
                       IF e.kind = "SignalDescription"
                          THEN DbcSignalNew(None, Some(e.description), EmptyMap)
                          ELSE DbcSignalNew(None, None, Insert(EmptyMap, e.name, e.value))
           /\ (e.kind = "SignalDefinition"
                   /\ touched # None /\ touched[1] \in DOMAIN frames
                   /\ e.def.name \in DOMAIN frames[touched[1]].signals) =>
                 LET old == frames[touched[1]].signals[e.def.name]
                 IN  /\ ret' = "Ok"
                     /\ DOMAIN frames'[touched[1]].signals = DOMAIN frames[touched[1]].signals
                     /\ frames'[touched[1]].signals[e.def.name] =
                           DbcSignalNew(Some(e.def), old.description, old.attributes) ]_vars

\* a signal created by a description, given an attribute, and then defined:
\* the record has the layout, the description and the attribute
C26_Witness ==
    /\ call # None /\ call[1].kind = "SignalDefinition" /\ ret = "Ok"
    /\ call[1].def.name = "s2"
    /\ last_id = Some(1) /\ 1 \in DOMAIN frames
    /\ DOMAIN frames[1].signals = {"s1", "s2"}
    /\ frames[1].signals["s2"].definition = Some(call[1].def)
    /\ frames[1].signals["s2"].description = Some("d2")
    /\ DOMAIN frames[1].signals["s2"].attributes # {}

\* C27: an add_entry call that returns an error, missing context or
\* unsupported entry, leaves the frame map, every record and last_id as they
\* were, and with them the frame the next SignalDefinition is attached to.
C27_RejectedEntryChangesNothing ==
    [][ (steps' = steps + 1 /\ ret' \in {"MissingContext", "UnsupportedEntry"}) =>
           /\ frames' = frames
           /\ last_id' = last_id
           /\ touched' = touched
           /\ \A d \in SignalDefinitions :
                 AddEntryResult(frames', last_id', d) = AddEntryResult(frames, last_id, d)
       ]_vars

\* a Version entry rejected by a library whose last touched frame is frame 0
\* and owns a signal
C27_Witness ==
    /\ call # None /\ call[1].kind = "Version" /\ ret = "UnsupportedEntry"
    /\ steps = 3
    /\ last_id = Some(0) /\ 0 \in DOMAIN frames
    /\ DOMAIN frames[0].signals # {}

\* C28: last_id is absent or the ID of a Frame Record of the frame map, so a
\* SignalDefinition that is accepted is merged into an existing frame and no
\* SignalDefinition reaches the create-frame path, where from_entry would
\* refuse it.
C28_LastIdNamesAFrame ==
    [][ /\ last_id = None \/ last_id[1] \in DOMAIN frames
        /\ last_id' = None \/ last_id'[1] \in DOMAIN frames'
        /\ (steps' = steps + 1 /\ call'[1].kind = "SignalDefinition") =>
              /\ ret' # "Panic"
              /\ ret' = "Ok" =>
                    /\ last_id # None /\ last_id[1] \in DOMAIN frames
                    /\ DOMAIN frames' = DOMAIN frames ]_vars

\* a SignalDefinition merged into a frame that a MessageAttribute created in
\* a library created empty
C28_Witness ==
    /\ call # None /\ call[1].kind = "SignalDefinition" /\ ret = "Ok"
    /\ steps = 2
    /\ last_id = Some(0) /\ DOMAIN frames = {0}
    /\ DOMAIN frames[0].attributes # {}
    /\ DOMAIN frames[0].signals = {call[1].def.name}

\* the frame-level entries, and pairs of them that refer to the same ID and
\* carry different facts: different kinds, or attributes with distinct keys
FrameEntries == MessageDefinitions \cup MessageDescriptions \cup MessageAttributes
Independent(e1, e2) ==
    /\ e1.id = e2.id
    /\ e1.kind # e2.kind \/ (e1.kind = "MessageAttribute" /\ e1.name # e2.name)

\* add_entry applied to the entries of a sequence from position i on
RECURSIVE IngestAll(_, _, _)
IngestAll(entries, i, lib) ==
    IF i > Len(entries) THEN lib
    ELSE LET r == AddEntryResult(lib.frames, lib.last_id, entries[i])
         IN  IngestAll(entries, i + 1, [frames |-> r.frames, last_id |-> r.last_id])

\* one definition, one description and attributes under both keys for an ID
FactsFor(id) ==
    { [kind |-> "MessageDefinition", id |-> id, name |-> "F2", message_len |-> 6,
       sending_node |-> "N2"],
      [kind |-> "MessageDescription", id |-> id, description |-> "d2"],
      [kind |-> "MessageAttribute", id |-> id, name |-> "k1", value |-> "v1"],
      [kind |-> "MessageAttribute", id |-> id, name |-> "k2", value |-> "v2"] }
Arrangements(set) ==
    {o \in [1 .. Cardinality(set) -> set] : \A i, j \in DOMAIN o : i # j => o[i] # o[j]}

\* C29: frame-level entries of different kinds (attributes: with distinct
\* keys) for the same ID can be ingested in any order: the frame-level entry
\* ingested in the step and any such fact commute on the Frame Record,
\* whether the first of the two creates the frame or not, and from a new
\* library every order of a definition, a description and two attributes
\* gives the same Frame Record.
C29_FrameFactsCommute ==
    [][ /\ (steps' = steps + 1 /\ call'[1] \in FrameEntries) =>
              LET e == call'[1] IN
              \A e2 \in FactsFor(e.id) :
                 Independent(e, e2) =>
                    LET first == AddEntryResult(frames, last_id, e2)
                    IN  /\ ret' = "Ok"
                        /\ AddEntryResult(frames', last_id', e2).frames[e.id] =
                              AddEntryResult(first.frames, first.last_id, e).frames[e.id]
        /\ steps = 0 =>
              \A id \in IDs : \A o1 \in Arrangements(FactsFor(id)),
                                  o2 \in Arrangements(FactsFor(id)) :
                 LET lib == [frames |-> frames, last_id |-> last_id]
                 IN  IngestAll(o1, 1, lib).frames[id] = IngestAll(o2, 1, lib).frames[id]
       ]_vars

\* the definition arrived last: the frame was created by an attribute or a
\* description and holds all three facts
C29_Witness ==
    /\ call # None /\ call[1].kind = "MessageDefinition" /\ ret = "Ok"
    /\ steps = 3
    /\ DOMAIN frames = {0}
    /\ frames[0] = DbcFrameNew("F2", 0, 6, "N2", Insert(EmptyMap, "k1", "v1"),
                               Some("d2"), EmptyMap)

(***************************************************************************)
(* Properties of the loader (checked under LoaderSpec).                    *)
(***************************************************************************)
\* the entries of the lines that tokenize, in line order
RECURSIVE TokenizedEntries(_, _)
TokenizedEntries(lines, i) ==
    IF i > Len(lines) THEN << >>
    ELSE IF lines[i].kw # "" /\ parse_dbc(lines[i]).tag = "Some"
            THEN <<parse_dbc(lines[i]).val>> \o TokenizedEntries(lines, i + 1)
            ELSE TokenizedEntries(lines, i + 1)

\* add_entry applied to the entries in order, the failures ignored
RECURSIVE IngestIgnoringFailures(_, _, _)
IngestIgnoringFailures(entries, i, lib) ==
    IF i > Len(entries) THEN lib
    ELSE LET r == AddEntryResult(lib.frames, lib.last_id, entries[i]) IN
         IngestIgnoringFailures(entries, i + 1,
                                IF r.ret = "Ok" THEN [frames |-> r.frames, last_id |-> r.last_id]
                                                ELSE lib)

\* C20: from_dbc_file fails exactly when the file cannot be opened or read;
\* otherwise it returns the library that add_entry builds from the lines
\* that tokenize, in line order, every line that does not tokenize and every
\* entry that add_entry rejects being skipped.
C20_LoaderFailsOnlyOnIo ==
    (call # None /\ ret # "New") =>
       LET file == call[1] IN
       /\ (ret = "IoError") <=> ~file.exists
       /\ file.exists =>
             /\ ret = "Ok"
             /\ [frames |-> frames, last_id |-> last_id] =
                   IngestIgnoringFailures(TokenizedEntries(file.lines, 1), 1,
                                          [frames |-> EmptyMap, last_id |-> None])

(***************************************************************************)
(* Properties of the library of the parser module (checked under           *)
(* ParserSpec).                                                            *)
(***************************************************************************)
\* C30: parser::DbcLibrary::add_entry returns the missing-context error for
\* a SignalDefinition exactly when no entry has been ingested before; a
\* SignalDefinition that follows a successfully ingested entry for frame 0 is
\* accepted and stored in frame 0.
C30_FrameZeroIsContext ==
    [][ \A e \in ParserSignalDefinitions :
          Called(e) =>
             /\ (ret' = "MissingContext") <=> (touched = None)
             /\ touched = Some(0) =>
                   /\ ret' = "Ok"
                   /\ 0 \in DOMAIN frames'
                   /\ e.def.name \in DOMAIN frames'[0].signals ]_vars

(***************************************************************************)
(* Properties of the codec (checked under CodecSpec).                      *)
(***************************************************************************)
HasLayout(signal) == signal.definition # None
LayoutOf(signal) == signal.definition[1]

\* the payload bits (byte index, bit in byte) that a layout occupies
PayloadBits(d) ==
    {<<IF d.little_endian THEN i \div 8 ELSE 7 - (i \div 8), i % 8>> :
        i \in d.start_bit .. (d.start_bit + d.bit_len - 1)}

\* v is the physical value of a raw integer that fits the layout, and an f32
\* holds it exactly
Representable(d, v) ==
    /\ \E r \in FrameRaws \cup RawCandidates :
          /\ d.bit_len > 30 \/ r < 2 ^ d.bit_len
          /\ v = Physical(d, r)
    /\ BitLength(Abs(v.m)) <= F32Digits

\* a frame and a signal_map as C5 wants them; the value of a signal is the
\* one given under the name in its layout
RoundTripFrame(frame, signal_map) ==
    /\ \A n \in DOMAIN frame.signals :
          /\ HasLayout(frame.signals[n])
          /\ LayoutOf(frame.signals[n]).bit_len >= 1
          /\ LayoutOf(frame.signals[n]).start_bit + LayoutOf(frame.signals[n]).bit_len <= 64
          /\ LayoutOf(frame.signals[n]).name \in DOMAIN signal_map
          /\ Representable(LayoutOf(frame.signals[n]),
                           signal_map[LayoutOf(frame.signals[n]).name])
    /\ \A n1, n2 \in DOMAIN frame.signals :
          n1 # n2 => PayloadBits(LayoutOf(frame.signals[n1]))
                        \cap PayloadBits(LayoutOf(frame.signals[n2])) = {}

DecodedAfter(kind) ==
    op.kind = "decode" /\ op.from # None /\ op.from[1].kind = kind

\* C5: frame-level encode followed by decode is a round trip: for signals
\* with pairwise disjoint bit ranges anywhere in the 64-bit payload and a
\* representable value for every signal, encode_message succeeds and each
\* signal decodes from the returned bytes to the value supplied for it.
C5_FrameRoundTrip ==
    /\ (op.kind = "encode_message" /\ RoundTripFrame(op.frame, op.signal_map))
          => op.out.tag = "Ok"
    /\ (DecodedAfter("encode_message")
            /\ RoundTripFrame(op.from[1].frame, op.from[1].signal_map))
          => op.out = SomeF32(op.from[1].signal_map[LayoutOf(op.signal).name])

\* C6: signal-level round trip: for every endianness, every layout with
\* bit_len >= 1 and start_bit + bit_len <= 64 and every raw r below
\* 2^bit_len, decoding the bytes of encode_signal(r * scale + offset) returns
\* exactly r * scale + offset.
C6_SignalRoundTrip ==
    LET fits(e) == /\ e.raw # None
                   /\ e.def.bit_len >= 1
                   /\ e.def.start_bit + e.def.bit_len <= 64
                   /\ e.def.bit_len > 30 \/ e.raw[1] < 2 ^ e.def.bit_len
    IN  /\ (op.kind = "encode_signal" /\ fits(op)) => op.out.tag = "Ok"
        /\ (DecodedAfter("encode_signal") /\ fits(op.from[1]))
              => op.out = SomeF32(op.from[1].signal)

\* the name of the signal stored under key n: the name in its layout, which
\* is the one encode_message looks up, and the key when it has no layout
SignalName(frame, n) ==
    IF HasLayout(frame.signals[n]) THEN LayoutOf(frame.signals[n]).name ELSE n
\* the names in the layouts of the signals of the frame
LayoutNames(frame) ==
    {LayoutOf(frame.signals[n]).name :
        n \in {k \in DOMAIN frame.signals : HasLayout(frame.signals[k])}}

MissingSignalData(frame, signal_map) ==
    \E n \in DOMAIN frame.signals : SignalName(frame, n) \notin DOMAIN signal_map

Restrict(map, keys) == [k \in (DOMAIN map) \cap keys |-> map[k]]

\* C7: encode_message never succeeds when signal_map lacks the name of a
\* signal of the frame, whatever the visiting order and the other values: it
\* returns an error (when every signal of the frame has a layout; a layoutless
\* signal makes get_definition abort the call instead).  The name of a signal
\* is the one in its layout, not the key under which the frame stores it.
\* Keys of signal_map that are no such name do not change the outcome.
C7_MissingSignalIsError ==
    op.kind = "encode_message" =>
       /\ MissingSignalData(op.frame, op.signal_map) =>
             /\ op.out.tag # "Ok"
             /\ (\A n \in DOMAIN op.frame.signals : HasLayout(op.frame.signals[n]))
                   => op.out.tag = "Err"
       /\ op.out = EncodeMessage(op.frame, Restrict(op.signal_map, LayoutNames(op.frame)),
                                 op.order, profile)

\* the signal visited first is present but its value does not fit, the one
\* visited second is missing, and a foreign key is present
C7_Witness ==
    /\ op.kind = "encode_message"
    /\ MissingSignalData(op.frame, op.signal_map)
    /\ \A n \in DOMAIN op.frame.signals : HasLayout(op.frame.signals[n])
    /\ SignalName(op.frame, op.order[1]) \in DOMAIN op.signal_map
    /\ SignalName(op.frame, op.order[2]) \notin DOMAIN op.signal_map
    /\ "other" \in DOMAIN op.signal_map
    /\ op.out = [tag |-> "Err", err |-> "Error encoding signal"]

\* the same call with the missing signal visited first
C7_WitnessMissingFirst ==
    /\ op.kind = "encode_message"
    /\ HasLayout(op.frame.signals[op.order[1]])
    /\ SignalName(op.frame, op.order[1]) \notin DOMAIN op.signal_map
    /\ op.out = [tag |-> "Err", err |-> "Missing signal data"]

\* the frame of tests.rs, whose two signals share the name in their layouts:
\* a signal_map that holds this name and not the key of the second signal is
\* encoded, and one that holds the key and not the name is rejected
C7_WitnessKeyIsNoName ==
    /\ op.kind = "encode_message"
    /\ LayoutNames(op.frame) = {"s1"} /\ DOMAIN op.frame.signals = {"s1", "s2"}
    /\ DOMAIN op.signal_map = {"s1"}
    /\ op.out.tag = "Ok"
    /\ EncodeMessage(op.frame, [n \in {"s2"} |-> op.signal_map["s1"]], op.order, profile)
          = [tag |-> "Err", err |-> "Missing signal data"]

\* byte j (from 0) of the buffer, zero beyond its end
PaddedByte(msg, j) == IF j + 1 <= Len(msg) THEN msg[j + 1] ELSE 0
\* bit i of the 64-bit word: little-endian byte 0 is least significant,
\* big-endian byte 0 is most significant
WordBit(little_endian, msg, i) ==
    ByteBit(PaddedByte(msg, IF little_endian THEN i \div 8 ELSE 7 - (i \div 8)), i % 8)
\* (word >> start_bit) & (2^bit_len - 1), bit by bit
RawBits(d, msg) ==
    [i \in BitPositions |->
        IF i < d.bit_len /\ d.start_bit + i <= 63
           THEN WordBit(d.little_endian, msg, d.start_bit + i) ELSE 0]

\* C8: for a non-empty buffer decode reads the zero-padded first 8 bytes as a
\* 64-bit word in the layout's byte order, takes
\* raw = (word >> start_bit) & (2^bit_len - 1) and returns raw * scale + offset
\* in f32 arithmetic; bytes 11 22 33 44 55 66 77 88 with (24, 16, little,
\* 0.125, 0) give raw 21828 and 2728.5.  The only call that returns nothing
\* is the one a build with overflow checks aborts (bit_len = 64).
C8_DecodeFormula ==
    (op.kind = "decode" /\ HasLayout(op.signal) /\ Len(op.msg) > 0) =>
       LET d == LayoutOf(op.signal)
           raw == RawBits(d, op.msg)
       IN  /\ op.out.tag # "None"
           /\ op.out.tag = "Panic" => (profile = "debug" /\ d.bit_len >= 64)
           /\ op.out.tag = "Some" =>
                 /\ op.out.val = AddF32(MulF32(U64AsF32(raw), d.scale), d.offset)
                 /\ d.bit_len <= 16 => op.out.val = Physical(d, BitsValue(raw, 0, 15))
           /\ (op.msg = MSG /\ d = SignalDef("sig", 24, 16, TRUE, Dy(1, -3), Zero))
                 => /\ BitsValue(raw, 0, 15) = 21828
                    /\ op.out = SomeF32(Dy(5457, -1))

\* the decode of tests.rs::test_parse_array, big-endian on the reversed bytes
C8_Witness ==
    /\ op.kind = "decode" /\ HasLayout(op.signal)
    /\ op.msg = MSG_BE
    /\ LayoutOf(op.signal) = SignalDef("sig", 24, 16, FALSE, Dy(1, -3), Zero)
    /\ op.out = SomeF32(Dy(5457, -1))

ZeroExtend(msg) == msg \o [j \in 1 .. (8 - Len(msg)) |-> 0]

\* C9: the slice/Vec decode returns None exactly for the empty buffer; a
\* buffer of 1 to 7 bytes is decoded as the buffer zero-extended on the
\* right to 8 bytes.
C9_NoneIffEmpty ==
    (op.kind = "decode" /\ op.api = "vec" /\ HasLayout(op.signal)) =>
       /\ (op.out.tag = "None") <=> (Len(op.msg) = 0)
       /\ (Len(op.msg) >= 1 /\ Len(op.msg) <= 7) =>
             op.out = DbcSignalDecode(op.signal, ZeroExtend(op.msg), profile)

\* a one-byte buffer decoded to the value of a field that the byte fills
C9_Witness ==
    /\ op.kind = "decode" /\ op.api = "vec" /\ HasLayout(op.signal)
    /\ Len(op.msg) = 1
    /\ LayoutOf(op.signal).start_bit = 0 /\ LayoutOf(op.signal).bit_len = 8
    /\ LayoutOf(op.signal).little_endian
    /\ op.out = SomeF32(Physical(LayoutOf(op.signal), op.msg[1]))
    /\ op.msg[1] # 0

\* the bit range of the layout holds no word bit that bytes k..7 supply
AvoidsBytesFrom(d, k) ==
    IF d.little_endian THEN d.start_bit + d.bit_len <= 8 * k
                       ELSE d.start_bit >= 8 * (8 - k)

\* C10: for every 8-byte message m, every k in 1..7 and every layout whose
\* bit range holds none of the word bits that bytes k..7 supply, the k-byte
\* prefix of m decodes to what m decodes to.
C10_ShortBufferTolerance ==
    (op.kind = "decode" /\ op.api = "vec" /\ HasLayout(op.signal)) =>
       \A m \in FullMessages, k \in 1 .. 7 :
          (op.msg = Prefix(m, k) /\ AvoidsBytesFrom(LayoutOf(op.signal), k)) =>
             op.out = DbcSignalDecode(op.signal, m, profile)

\* tests.rs::test_parse_message: the 7-byte prefix of the big-endian message
C10_Witness ==
    /\ op.kind = "decode" /\ op.api = "vec" /\ HasLayout(op.signal)
    /\ op.msg = Prefix(MSG_BE, 7)
    /\ LayoutOf(op.signal) = SignalDef("sig", 24, 16, FALSE, Dy(1, -3), Zero)
    /\ op.out = SomeF32(Dy(5457, -1))

Reverse(msg) == [j \in 1 .. Len(msg) |-> msg[Len(msg) + 1 - j]]
WithLayout(signal, d) == DbcSignalNew(Some(d), signal.description, signal.attributes)
DecodeBy(api, signal, msg) ==
    IF api = "array" THEN DbcSignalDecodeArray(signal, msg, profile)
                     ELSE DbcSignalDecode(signal, msg, profile)

\* C11: for every 8-byte buffer and every layout, the decode with the layout
\* in one byte order equals the decode of the byte-reversed buffer with the
\* same layout in the other byte order.
C11_EndiannessSymmetry ==
    (op.kind = "decode" /\ HasLayout(op.signal) /\ Len(op.msg) = 8) =>
       LET d == LayoutOf(op.signal)
           flipped == WithLayout(op.signal, [d EXCEPT !.little_endian = ~d.little_endian])
       IN  op.out = DecodeBy(op.api, flipped, Reverse(op.msg))

\* a little-endian decode of a buffer that is not a palindrome, which the
\* big-endian layout reads differently when the bytes are not reversed
C11_Witness ==
    /\ op.kind = "decode" /\ HasLayout(op.signal)
    /\ op.msg = <<1, 0, 0, 128, 0, 0, 0, 129>>
    /\ LayoutOf(op.signal) = SignalDef("sig", 56, 8, TRUE, Dy(1, 0), Zero)
    /\ op.out = SomeF32(Dy(129, 0))
    /\ DecodeBy(op.api, WithLayout(op.signal, SignalDef("sig", 56, 8, FALSE, Dy(1, 0), Zero)),
                op.msg) = SomeF32(Dy(1, 0))

\* C16: a Signal Record built from a SignalDescription or a SignalAttribute
\* before any SignalDefinition yields no numeric result: decode on it fails,
\* and so does encode_message on a frame that owns it.
C16_LayoutlessNeverNumeric ==
    /\ (op.kind = "decode" /\ ~HasLayout(op.signal)) => op.out.tag # "Some"
    /\ (op.kind = "encode_message"
           /\ \E n \in DOMAIN op.frame.signals : ~HasLayout(op.frame.signals[n]))
          => op.out.tag # "Ok"
    /\ (op.kind = "parser_decode"
           /\ op.entry.kind \in {"SignalDescription", "SignalAttribute"})
          => op.out.tag # "Some"

\* raw > 2^bit_len for raw = (v - offset) / scale, compared exactly
ExceedsWidth(d, v) ==
    LET raw == DivF64(SubF64(v, d.offset), d.scale)
    IN  /\ IsPositive(raw)
        /\ \/ Exponent(raw) > d.bit_len
           \/ Exponent(raw) = d.bit_len /\ ExcessUnits(raw) > 0

\* C17: encode_signal returns the overflow error exactly when
\* raw = (physical_value - offset) / scale is greater than 2^bit_len; every
\* other value is encoded, raw = 2^bit_len, raw = 0 and negative raw included.
C17_OverflowIffLog2Exceeds ==
    op.kind = "encode_signal" =>
       LET d == op.def
           over == IF op.raw # None
                      THEN d.bit_len <= 30 /\ op.raw[1] > 2 ^ d.bit_len
                      ELSE ExceedsWidth(d, op.signal)
       IN  /\ op.out.tag \in {"Ok", "Err"}
           /\ (op.out.tag = "Err") <=> over
           /\ op.out.tag = "Err" => op.out.err = "Overflow"

\* C18: decode does not read the signed flag: the layout with the flag
\* inverted decodes the buffer to the same outcome, and the raw value is the
\* unsigned integer held by the bits of the range.
C18_SignedFlagIgnored ==
    (op.kind = "decode" /\ HasLayout(op.signal)) =>
       LET d == LayoutOf(op.signal)
           other == WithLayout(op.signal, WithSigned(d, ~d.signed))
       IN  /\ op.out = DecodeBy(op.api, other, op.msg)
           /\ (op.out.tag = "Some" /\ d.scale = Dy(1, 0) /\ d.offset = Zero) =>
                 /\ op.out.val.m >= 0
                 /\ d.bit_len <= 16 =>
                       op.out.val = Dy(BitsValue(RawBits(d, op.msg), 0, 15), 0)

\* a signed 8-bit layout on the byte 0xFF decodes to 255 and not to -1
C18_Witness ==
    /\ op.kind = "decode" /\ HasLayout(op.signal)
    /\ LayoutOf(op.signal) =
          WithSigned(SignalDef("sig", 0, 8, TRUE, Dy(1, 0), Zero), TRUE)
    /\ Len(op.msg) = 8 /\ op.msg[1] = 255
    /\ op.out = SomeF32(Dy(255, 0))

\* C19: for a frame and a signal_map, every order in which get_signals() may
\* yield the signals gives the same outcome: success with the same 8 bytes,
\* or failure (the same Ok or Err when every signal of the frame has a
\* layout; a layoutless signal aborts the call when the loop reaches it).
C19_OrderIndependent ==
    op.kind = "encode_message" =>
       \A o \in Orders(op.frame) :
          LET other == EncodeMessage(op.frame, op.signal_map, o, profile)
          IN  /\ (other.tag = "Ok") <=> (op.out.tag = "Ok")
              /\ other.tag = "Ok" => other.val = op.out.val
              /\ (\A n \in DOMAIN op.frame.signals : HasLayout(op.frame.signals[n]))
                    => other.tag = op.out.tag

\* the frame of tests.rs encoded with the second signal visited first: both
\* signals have left their bits in the result
C19_Witness ==
    /\ op.kind = "encode_message"
    /\ op.order = <<"s2", "s1">>
    /\ op.out.tag = "Ok"
    /\ LayoutOf(op.frame.signals["s2"]).start_bit = 41
    /\ op.signal_map["s1"] = Dy(5457, -1)
    /\ op.out.val[4] # 0 /\ op.out.val[5] # 0
    /\ \E j \in 1 .. 3 : op.out.val[j] # 0

\* the contribution encode_signal makes for the signal visited at position i
Contribution(frame, signal_map, order, i) ==
    LET d == LayoutOf(frame.signals[order[i]])
    IN  EncodeSignal(d.bit_len, d.start_bit, d.little_endian, d.scale, d.offset,
                     signal_map[d.name], profile)

\* the bitwise OR, byte by byte, of the contributions from position i on
RECURSIVE OrOfContributions(_, _, _, _)
OrOfContributions(frame, signal_map, order, i) ==
    IF i > Len(order) THEN ZeroBytes
    ELSE OrInto_AllBytes(OrOfContributions(frame, signal_map, order, i + 1),
                         Contribution(frame, signal_map, order, i).val)

\* C23: when encode_message succeeds, each of the 8 bytes of the result,
\* indices 0 to 7, is the bitwise OR of the corresponding bytes of the
\* contributions encode_signal made for the signals of the frame.
C23_EveryByteCombined ==
    (op.kind = "encode_message" /\ op.out.tag = "Ok") =>
       \A j \in 1 .. 8 :
          op.out.val[j] = OrOfContributions(op.frame, op.signal_map, op.order, 1)[j]

\* the 64-bit word whose bytes encode_signal returned
EncodedWord(call_op) == ReadU64(call_op.def.little_endian, call_op.out.val)

\* an encode_signal call that returned Ok for a layout inside the payload
EncodedInside(call_op) ==
    /\ call_op.kind = "encode_signal"
    /\ call_op.out.tag = "Ok"
    /\ call_op.def.start_bit + call_op.def.bit_len <= 64

\* C24 as stated: the word of an accepted value has no bit set outside
\* [start_bit, start_bit + bit_len).
C24_NoBitOutsideRange ==
    EncodedInside(op) =>
       \A i \in BitPositions :
          EncodedWord(op)[i] = 1 =>
             (op.def.start_bit <= i /\ i < op.def.start_bit + op.def.bit_len)

\* the raw value (signal - offset) / scale of an encode_signal call, exactly
RawOf(call_op) == DivF64(SubF64(call_op.signal, call_op.def.offset), call_op.def.scale)
\* raw >= 2^bit_len
ReachesNextBit(raw, bit_len) == IsPositive(raw) /\ Exponent(raw) >= bit_len
\* 2^bit_len <= raw <= 2^bit_len * (1 + bit_len * 2^-52)
NextToBound(raw, bit_len) ==
    IsPositive(raw) /\ Exponent(raw) = bit_len /\ ExcessUnits(raw) <= bit_len

\* C24, amended: the word of an accepted value has no bit set below
\* start_bit and none above start_bit + bit_len; the bit at
\* start_bit + bit_len, the lowest bit of a neighbour above, is set exactly
\* when raw >= 2^bit_len.  The check accepts such a raw only next to its
\* bound: raw = 2^bit_len itself, and the values above it whose logarithm
\* rounds to bit_len, none beyond 2^bit_len * (1 + bit_len * 2^-52).
C24_OnlyNextBitEscapes ==
    /\ EncodedInside(op) =>
          LET top == op.def.start_bit + op.def.bit_len
              raw == RawOf(op)
          IN  /\ \A i \in BitPositions :
                    EncodedWord(op)[i] = 1 => (op.def.start_bit <= i /\ i <= top)
              /\ top <= 63 =>
                    ((EncodedWord(op)[top] = 1) <=> ReachesNextBit(raw, op.def.bit_len))
              /\ ReachesNextBit(raw, op.def.bit_len) => NextToBound(raw, op.def.bit_len)
    /\ (op.kind = "encode_signal" /\ op.def.bit_len <= 30
            /\ op.raw = Some(2 ^ op.def.bit_len))
          => op.out.tag = "Ok"

\* raw = 2^50 + 1 accepted for a 50-bit signal at bit 0: bits 0 and 50 are
\* set; raw = 256 is accepted for an 8-bit signal and sets bit 8, and a
\* value that fills the 8 bits sets no bit beyond them
C24_Witness ==
    /\ EncodedInside(op)
    /\ op.def = SignalDef("sig", 0, 50, TRUE, Dy(1, 0), Zero)
    /\ op.signal = [hi |-> 2 ^ 24, lo |-> 1, e |-> 0]
    /\ EncodedWord(op)[50] = 1 /\ EncodedWord(op)[0] = 1
    /\ EncodeSignal(8, 0, TRUE, Dy(1, 0), Zero, Dy(256, 0), profile).val[2] = 1
    /\ EncodeSignal(8, 0, TRUE, Dy(1, 0), Zero, Dy(255, 0), profile).val[2] = 0

\* C25: decode is total on valid layouts: for every non-empty buffer and
\* every layout with bit_len >= 1 and start_bit + bit_len <= 64, bit_len = 64
\* with start_bit = 0 included, decode returns a value and does not abort.
C25_DecodeTotal ==
    (op.kind = "decode" /\ HasLayout(op.signal) /\ Len(op.msg) >= 1
        /\ LayoutOf(op.signal).bit_len >= 1
        /\ LayoutOf(op.signal).start_bit + LayoutOf(op.signal).bit_len <= 64)
       => op.out.tag = "Some"

====
